---- MODULE Spec2Model ----
(***************************************************************************)
(* Credential hashing service of the registration / login application:     *)
(* generateSalt, hashPassword, createPasswordHash, verifyPassword and      *)
(* constantTimeCompare.                                                    *)
(*                                                                         *)
(* A JavaScript string is a sequence of one-character strings.  A call is  *)
(* a frame; the synchronous code between two awaits is one atomic step,    *)
(* as on the single-threaded event loop that runs the code.                *)
(***************************************************************************)
EXTENDS Integers, Sequences, FiniteSets, TLC

VARIABLES calls, stored, users, run, auth, ui, browser, app,
          store, atoms, requests, retry, http

vars ==
  <<calls, stored, users, run, auth, ui, browser, app, store, atoms, requests, retry, http>>

\* the state of the credential hashing service and of its record
serviceVars == <<calls, stored>>

\* the state of the user database, of the forms and of the session
appVars == <<users, run, auth, ui>>

\* the state of the browser and of the client-side stores
clientVars == <<browser, app, store, atoms, requests, retry, http>>

\* withRetry and the HttpClient
netVars == <<retry, http>>

\* useUserStore, the atoms of userAtoms and the requests they wait for
userStoreVars == <<store, atoms, requests>>

\* the client-side stores
storeVars == <<app, userStoreVars>>

(***************************************************************************)
(* Bounds of the model.                                                    *)
(***************************************************************************)
\* concurrent callers of the specification SpecConc
NumCallers == 2
\* longest plaintext password that is submitted
MaxPwLen == 2

(***************************************************************************)
(* Characters, character codes and bit operations.                         *)
(***************************************************************************)
HexDigits == <<"0", "1", "2", "3", "4", "5", "6", "7", "8", "9", "a", "b", "c", "d", "e", "f">>

HexChars == {HexDigits[i] : i \in 1..16}

\* the characters that occur in the model, with their UTF-16 code units
Ascii == <<"!", "#", "$", "-", "0", "1", "2", "3", "4", "5", "6", "7", "8", "9", "A", "a", "b", "c", "d", "e", "f", "k", "p", "x">>

AsciiCodes == <<33, 35, 36, 45, 48, 49, 50, 51, 52, 53, 54, 55, 56, 57, 65, 97, 98, 99, 100, 101, 102, 107, 112, 120>>

CodeUnits ==
  [ch \in {Ascii[i] : i \in 1..Len(Ascii)} |->
     AsciiCodes[CHOOSE i \in 1..Len(Ascii) : Ascii[i] = ch]]

\* String.prototype.charCodeAt for one character
charCode(ch) == CodeUnits[ch]

RECURSIVE XorBits(_, _)
\* a ^ b on non-negative integers, bit by bit
XorBits(a, b) ==
  IF a = 0 /\ b = 0 THEN 0
  ELSE (((a % 2) + (b % 2)) % 2) + 2 * XorBits(a \div 2, b \div 2)

RECURSIVE OrBits(_, _)
\* a | b on non-negative integers, bit by bit
OrBits(a, b) ==
  IF a = 0 /\ b = 0 THEN 0
  ELSE (IF a % 2 = 1 \/ b % 2 = 1 THEN 1 ELSE 0) + 2 * OrBits(a \div 2, b \div 2)

\* the operators on code units below 128, tabulated
XorTable == [a \in 0..127 |-> [b \in 0..127 |-> XorBits(a, b)]]

OrTable == [a \in 0..127 |-> [b \in 0..127 |-> OrBits(a, b)]]

BitXor(a, b) == XorTable[a][b]

BitOr(a, b) == OrTable[a][b]

RECURSIVE Join(_)
\* Array.prototype.join('') of an array of strings
Join(ss) == IF ss = <<>> THEN <<>> ELSE Head(ss) \o Join(Tail(ss))

(***************************************************************************)
(* JavaScript values that cross the interface.                             *)
(***************************************************************************)
JSString(s) == [t |-> "string", s |-> s, b |-> FALSE]

JSBoolean(b) == [t |-> "boolean", s |-> <<>>, b |-> b]

JSUndefined == [t |-> "undefined", s |-> <<>>, b |-> FALSE]

JSNumber(n) == [nan |-> FALSE, n |-> n]

JSNaN == [nan |-> TRUE, n |-> 0]

(***************************************************************************)
(* Number and string conversions used by the service.                      *)
(***************************************************************************)
\* byte.toString(16): no leading zero
toString16(byte) ==
  IF byte < 16 THEN <<HexDigits[byte + 1]>>
  ELSE <<HexDigits[(byte \div 16) + 1], HexDigits[(byte % 16) + 1]>>

RECURSIVE padStart(_, _, _)
\* String.prototype.padStart(targetLength, padString) with a one-character pad
padStart(s, targetLength, pad) ==
  IF Len(s) >= targetLength THEN s ELSE padStart(<<pad>> \o s, targetLength, pad)

\* byte => byte.toString(16).padStart(2, '0')
byteToHexNoPad(byte) == toString16(byte)

byteToHex(byte) == padStart(toString16(byte), 2, "0")

\* Array.from(bytes, byteToHex).join('')
bytesToHex(bytes) == Join([i \in 1..Len(bytes) |-> byteToHex(bytes[i])])

RECURSIVE numberToString(_)
\* the template literal `${iterations}` of a non-negative integer
numberToString(n) ==
  IF n < 10 THEN <<HexDigits[n + 1]>>
  ELSE numberToString(n \div 10) \o <<HexDigits[(n % 10) + 1]>>

\* the digits parseInt accepts in the given radix (10 or 16)
radixDigits(radix) ==
  IF radix = 16 THEN HexChars \cup {"A"} ELSE {HexDigits[i] : i \in 1..10}

digitValue(ch) ==
  IF ch = "A" THEN 10 ELSE (CHOOSE i \in 1..16 : HexDigits[i] = ch) - 1

RECURSIVE digitsPrefix(_, _, _)
\* value of the longest prefix of digits of s in the radix, continuing from acc
digitsPrefix(s, acc, radix) ==
  IF s = <<>> \/ Head(s) \notin radixDigits(radix) THEN acc
  ELSE digitsPrefix(Tail(s), acc * radix + digitValue(Head(s)), radix)

\* parseInt(s) without a radix argument: an optional sign, an optional
\* prefix 0x that selects radix 16, then the longest prefix of digits;
\* NaN when there is no digit
parseInt(s) ==
  LET neg    == s # <<>> /\ Head(s) = "-"
      body   == IF neg THEN Tail(s) ELSE s
      hex    == Len(body) >= 2 /\ body[1] = "0" /\ body[2] = "x"
      radix  == IF hex THEN 16 ELSE 10
      digits == IF hex THEN SubSeq(body, 3, Len(body)) ELSE body
  IN  IF digits = <<>> \/ Head(digits) \notin radixDigits(radix) THEN JSNaN
      ELSE JSNumber((IF neg THEN -1 ELSE 1) * digitsPrefix(digits, 0, radix))

RECURSIVE split(_, _)
\* String.prototype.split(separator) for a one-character separator
split(s, sep) ==
  IF \A i \in 1..Len(s) : s[i] # sep THEN <<s>>
  ELSE LET k == CHOOSE i \in 1..Len(s) :
                  s[i] = sep /\ \A j \in 1..(i - 1) : s[j] # sep
       IN  <<SubSeq(s, 1, k - 1)>> \o split(SubSeq(s, k + 1, Len(s)), sep)

\* TextEncoder.encode of a string of ASCII characters
encode(s) == [i \in 1..Len(s) |-> charCode(s[i])]

(***************************************************************************)
(* The random source.  crypto.getRandomValues fills the array with any     *)
(* bytes; the model draws the fill from a sample of patterns, among them   *)
(* the all-zero and the all-ones fill.  It raises QuotaExceededError for   *)
(* an array of more than RandomQuota bytes, and it raises when the source  *)
(* is unavailable.                                                         *)
(***************************************************************************)
RandomQuota == 65536

\* <<first byte, increment>> of the sampled fills
RandomPatterns == {<<0, 0>>, <<9, 37>>, <<255, 0>>}

RandomFills(n) ==
  {[i \in 1..n |-> (pat[1] + (i - 1) * pat[2]) % 256] : pat \in RandomPatterns}

RandomOutcomes(n) ==
  IF n > RandomQuota THEN {[kind |-> "quota", bytes |-> <<>>]}
  ELSE {[kind |-> "filled", bytes |-> f] : f \in RandomFills(n)}
         \cup {[kind |-> "unavailable", bytes |-> <<>>]}

\* generateSalt(length) when getRandomValues ends with the outcome rnd
generateSaltOneChar(length, rnd) ==
  IF rnd.kind # "filled" THEN [threw |-> TRUE, value |-> <<>>]
  ELSE [threw |-> FALSE,
        value |-> Join([i \in 1..Len(rnd.bytes) |-> byteToHexNoPad(rnd.bytes[i])])]

generateSaltConstant(length, rnd) ==
  IF rnd.kind # "filled" THEN [threw |-> TRUE, value |-> <<>>]
  ELSE [threw |-> FALSE, value |-> bytesToHex([i \in 1..length |-> 0])]

\* generateSalt that fills half of the array
generateSaltHalf(length, rnd) ==
  IF rnd.kind # "filled" THEN [threw |-> TRUE, value |-> <<>>]
  ELSE [threw |-> FALSE, value |-> bytesToHex(SubSeq(rnd.bytes, 1, length \div 2))]

\* generateSalt that falls back on a fixed salt when the source fails
generateSaltFallback(length, rnd) ==
  IF rnd.kind # "filled"
    THEN [threw |-> FALSE, value |-> bytesToHex([i \in 1..length |-> 0])]
  ELSE [threw |-> FALSE, value |-> bytesToHex(rnd.bytes)]

generateSalt(length, rnd) ==
  IF rnd.kind # "filled" THEN [threw |-> TRUE, value |-> <<>>]
  ELSE [threw |-> FALSE, value |-> bytesToHex(rnd.bytes)]

DefaultSaltLength == 16

(***************************************************************************)
(* PBKDF2-HMAC-SHA-256 of the Web Crypto API, as a keyed mixing function:  *)
(* deterministic, sensitive to every byte of the password and of the salt  *)
(* and to the iteration count, free of collisions on the inputs of the     *)
(* model (Init requires it), DigestBytes bytes long.  deriveBits rejects   *)
(* an iteration count that is NaN, zero or negative.                       *)
(***************************************************************************)
DigestBits == 256

DigestBytes == DigestBits \div 8

DefaultIterations == 100000

RECURSIVE Absorb(_, _, _, _)
\* the bytes of data folded into h, modulo m
Absorb(h, data, mult, m) ==
  IF data = <<>> THEN h
  ELSE Absorb((h * mult + Head(data) + 1) % m, Tail(data), mult, m)

Fingerprint(passwordData, saltData, iterations, mult, m) ==
  LET hp == Absorb(7, passwordData, mult, m)
      hs == Absorb((hp * mult) % m, saltData, mult, m)
  IN  (hs * mult + (iterations % m)) % m

deriveBits(passwordData, saltData, iterations, bits) ==
  IF iterations.nan \/ iterations.n < 1 THEN [threw |-> TRUE, bytes |-> <<>>]
  ELSE LET f1 == Fingerprint(passwordData, saltData, iterations.n, 31, 65521)
           f2 == Fingerprint(passwordData, saltData, iterations.n, 37, 65519)
           word(i) == IF i % 2 = 1 THEN f1 ELSE f2
       IN  [threw |-> FALSE,
            bytes |-> [i \in 1..(bits \div 8) |->
                        CASE i = 1 -> f1 % 256
                          [] i = 2 -> f1 \div 256
                          [] i = 3 -> f2 % 256
                          [] i = 4 -> f2 \div 256
                          [] OTHER -> ((word(i) \div i) + 13 * i) % 256]]

\* hashPassword once importKey has delivered the key: deriveBits, then the
\* bytes as hexadecimal; rejects when deriveBits rejects
hashPasswordWithKey(importedKey, salt, iterations) ==
  LET derived == deriveBits(importedKey, encode(salt), iterations, DigestBits)
  IN  IF derived.threw THEN [threw |-> TRUE, value |-> <<>>]
      ELSE [threw |-> FALSE, value |-> bytesToHex(derived.bytes)]

\* hashPassword(password, salt, iterations), from call to settlement
hashPassword(password, salt, iterations) ==
  hashPasswordWithKey(encode(password), salt, iterations)

\* the template literal that createPasswordHash returns
formatRecordNoLead(iterations, salt, hash) ==
  <<"p", "b", "k", "d", "f", "2", "$">> \o numberToString(iterations)
    \o <<"$">> \o salt \o <<"$">> \o hash

formatRecord(iterations, salt, hash) ==
  <<"$", "p", "b", "k", "d", "f", "2", "$">> \o numberToString(iterations)
    \o <<"$">> \o salt \o <<"$">> \o hash

RECURSIVE compareLoop(_, _, _, _)
\* the for loop of constantTimeCompare from index i on; acc holds result,
\* the positions examined so far and the tests of result made so far
compareLoopEarlyExit(a, b, i, acc) ==
  LET mism == {k \in (i + 1)..Len(a) : a[k] # b[k]}
      stop == IF mism = {} THEN Len(a)
              ELSE CHOOSE k \in mism : \A j \in mism : k <= j
  IN  [result |-> IF mism = {} THEN 0 ELSE 1,
       examined |-> stop - i,
       resultTests |-> stop - i]

compareLoop(a, b, i, acc) ==
  IF i < Len(a)
    THEN compareLoop(a, b, i + 1,
           [acc EXCEPT !.result = BitOr(acc.result,
                                    BitXor(charCode(a[i + 1]), charCode(b[i + 1]))),
                       !.examined = acc.examined + 1])
    ELSE acc

\* constantTimeCompare whose loop accumulates with &=, so that result stays 0
constantTimeCompareAnd(a, b) ==
  IF Len(a) # Len(b) THEN [ret |-> FALSE, examined |-> 0, resultTests |-> 0]
  ELSE [ret |-> TRUE, examined |-> Len(a), resultTests |-> 1]

\* constantTimeCompare(a, b): ret is the returned boolean, examined the
\* number of positions whose characters were read, resultTests the number
\* of branches taken on the accumulated result
constantTimeCompare(a, b) ==
  IF Len(a) # Len(b) THEN [ret |-> FALSE, examined |-> 0, resultTests |-> 0]
  ELSE LET loop == compareLoop(a, b, 0, [result |-> 0, examined |-> 0, resultTests |-> 0])
       IN  [ret |-> loop.result = 0,
            examined |-> loop.examined,
            resultTests |-> loop.resultTests + 1]

\* parseRecord with the field count and the positions of the four-field
\* format
parseRecordFourParts(hashedPassword) ==
  LET parts == split(hashedPassword.s, "$")
  IN  IF hashedPassword.t # "string"
        THEN [reject |-> TRUE, iterations |-> JSNaN, salt |-> <<>>, storedHash |-> <<>>]
      ELSE IF Len(parts) # 4 \/ parts[1] # <<"p", "b", "k", "d", "f", "2">>
        THEN [reject |-> TRUE, iterations |-> JSNaN, salt |-> <<>>, storedHash |-> <<>>]
      ELSE [reject |-> FALSE,
            iterations |-> parseInt(parts[2]),
            salt |-> parts[3],
            storedHash |-> parts[4]]

\* parseRecord without the test of the algorithm tag
parseRecordAnyTag(hashedPassword) ==
  LET parts == split(hashedPassword.s, "$")
  IN  IF hashedPassword.t # "string" \/ Len(parts) # 5
        THEN [reject |-> TRUE, iterations |-> JSNaN, salt |-> <<>>, storedHash |-> <<>>]
      ELSE [reject |-> FALSE,
            iterations |-> parseInt(parts[3]),
            salt |-> parts[4],
            storedHash |-> parts[5]]

\* parseRecord that takes the default iteration count, not the stored one
parseRecordDefaultIterations(hashedPassword) ==
  LET parts == split(hashedPassword.s, "$")
  IN  IF hashedPassword.t # "string"
        THEN [reject |-> TRUE, iterations |-> JSNaN, salt |-> <<>>, storedHash |-> <<>>]
      ELSE IF Len(parts) # 5 \/ parts[2] # <<"p", "b", "k", "d", "f", "2">>
        THEN [reject |-> TRUE, iterations |-> JSNaN, salt |-> <<>>, storedHash |-> <<>>]
      ELSE [reject |-> FALSE,
            iterations |-> JSNumber(DefaultIterations),
            salt |-> parts[4],
            storedHash |-> parts[5]]

\* verifyPassword up to the call of hashPassword: the record split into its
\* parts.  reject: the function returns false here, by the format test or
\* by the catch of the TypeError that split raises on a value that is no
\* string
parseRecord(hashedPassword) ==
  LET parts == split(hashedPassword.s, "$")
  IN  IF hashedPassword.t # "string"
        THEN [reject |-> TRUE, iterations |-> JSNaN, salt |-> <<>>, storedHash |-> <<>>]
      ELSE IF Len(parts) # 5 \/ parts[2] # <<"p", "b", "k", "d", "f", "2">>
        THEN [reject |-> TRUE, iterations |-> JSNaN, salt |-> <<>>, storedHash |-> <<>>]
      ELSE [reject |-> FALSE,
            iterations |-> parseInt(parts[3]),
            salt |-> parts[4],
            storedHash |-> parts[5]]

\* verifyPassword that accepts every password for a record that parses
verifyPasswordWellFormed(password, hashedPassword) ==
  ~parseRecord(hashedPassword).reject

\* verifyPassword(password, hashedPassword), from call to settlement: the
\* boolean it resolves to
verifyPassword(password, hashedPassword) ==
  LET parsed == parseRecord(hashedPassword)
      hash   == hashPassword(password, parsed.salt, parsed.iterations)
  IN  IF parsed.reject \/ hash.threw THEN FALSE
      ELSE constantTimeCompare(hash.value, parsed.storedHash).ret

(***************************************************************************)
(* State.  calls[c] is the frame of caller c's call in progress; stored is *)
(* the password column of the user row, with a record of how its value     *)
(* came about (kind, and the password, salt and iteration count it was     *)
(* made from).                                                             *)
(***************************************************************************)
Callers == 1..NumCallers

MainCaller == 1

IdleFrame ==
  [op |-> "none", pc |-> "idle", password |-> <<>>, hashedPassword |-> JSUndefined,
   origin |-> [kind |-> "none", damage |-> "none", pw |-> <<>>, fill |-> <<>>, salt |-> <<>>, iterations |-> 0],
   length |-> 0, salt |-> <<>>, iterations |-> JSNaN, storedHash |-> <<>>,
   importedKey |-> <<>>, hash |-> <<>>, examined |-> 0, resultTests |-> 0,
   compared |-> FALSE, rng |-> "none", fill |-> <<>>, threw |-> FALSE, ret |-> JSUndefined]

NoRecord ==
  [value |-> JSUndefined,
   origin |-> [kind |-> "none", damage |-> "none", pw |-> <<>>, fill |-> <<>>, salt |-> <<>>, iterations |-> 0]]

RECURSIVE StringsUpTo(_, _)
\* the strings over chars of length at most n
StringsUpTo(chars, n) ==
  IF n = 0 THEN {<<>>}
  ELSE LET shorter == StringsUpTo(chars, n - 1)
       IN  shorter \cup {<<ch>> \o t : ch \in chars, t \in {u \in shorter : Len(u) = n - 1}}

\* the plaintext passwords that callers submit
Passwords == StringsUpTo({"a", "A"}, MaxPwLen)

\* the passwords of the concurrent specification
ConcPasswords == {<<>>, <<"a">>}

\* frame of caller c
FrameOf(c) == calls[c]

\* the stored digest that the comparison of caller c's verifyPassword reads:
\* the const of its own invocation
storedHashShared(c) ==
  LET others == {d \in Callers : d # c /\ calls[d].op = "verifyPassword"
                                   /\ calls[d].pc # "idle"}
  IN  IF others = {} THEN calls[c].storedHash
      ELSE calls[CHOOSE d \in others : TRUE].storedHash

storedHashOf(c) == calls[c].storedHash

(***************************************************************************)
(* createPasswordHash(password).                                           *)
(***************************************************************************)
\* the call: generateSalt, then hashPassword up to its first await
CreateStart(c, password, rnd) ==
  /\ calls[c].pc = "idle"
  /\ LET salt == generateSalt(DefaultSaltLength, rnd)
     IN  calls' = [calls EXCEPT ![c] =
           IF salt.threw
             THEN [IdleFrame EXCEPT !.op = "createPasswordHash", !.pc = "done",
                                    !.password = password, !.rng = rnd.kind,
                                    !.threw = TRUE]
             ELSE [IdleFrame EXCEPT !.op = "createPasswordHash", !.pc = "importKey",
                                    !.password = password, !.rng = rnd.kind,
                                    !.fill = rnd.bytes, !.salt = salt.value,
                                    !.iterations = JSNumber(DefaultIterations)]]
  /\ UNCHANGED <<stored, appVars, clientVars>>

(***************************************************************************)
(* verifyPassword(password, hashedPassword), on the stored value.          *)
(***************************************************************************)
VerifyStart(c, password) ==
  /\ calls[c].pc = "idle"
  /\ LET parsed == parseRecord(stored.value)
         frame  == [IdleFrame EXCEPT !.op = "verifyPassword", !.password = password,
                                     !.hashedPassword = stored.value,
                                     !.origin = stored.origin]
     IN  calls' = [calls EXCEPT ![c] =
           IF parsed.reject
             THEN [frame EXCEPT !.pc = "done", !.ret = JSBoolean(FALSE)]
             ELSE [frame EXCEPT !.pc = "importKey", !.iterations = parsed.iterations,
                                !.salt = parsed.salt, !.storedHash = parsed.storedHash]]
  /\ UNCHANGED <<stored, appVars, clientVars>>

(***************************************************************************)
(* hashPassword inside either call.                                        *)
(***************************************************************************)
\* crypto.subtle.importKey settles; hashPassword calls deriveBits
ImportKeyDone(c) ==
  /\ calls[c].pc = "importKey"
  /\ calls' = [calls EXCEPT ![c].pc = "deriveBits",
                            ![c].importedKey = encode(calls[c].password)]
  /\ UNCHANGED <<stored, appVars, clientVars>>

\* crypto.subtle.deriveBits settles; hashPassword returns the hexadecimal
\* digest to its caller, which runs to its end
DeriveBitsDone(c) ==
  /\ calls[c].pc = "deriveBits"
  /\ LET f    == FrameOf(c)
         hash == hashPasswordWithKey(f.importedKey, f.salt, f.iterations)
         cmp  == constantTimeCompare(hash.value, storedHashOf(c))
     IN  calls' = [calls EXCEPT ![c] =
           CASE f.op = "createPasswordHash" /\ hash.threw ->
                  [f EXCEPT !.pc = "done", !.threw = TRUE]
             [] f.op = "createPasswordHash" /\ ~hash.threw ->
                  [f EXCEPT !.pc = "done", !.hash = hash.value,
                            !.ret = JSString(formatRecord(f.iterations.n, f.salt, hash.value))]
             [] f.op = "verifyPassword" /\ hash.threw ->
                  [f EXCEPT !.pc = "done", !.ret = JSBoolean(FALSE)]
             [] OTHER ->
                  [f EXCEPT !.pc = "done", !.hash = hash.value, !.compared = TRUE,
                            !.examined = cmp.examined, !.resultTests = cmp.resultTests,
                            !.ret = JSBoolean(cmp.ret)]]
  /\ UNCHANGED <<stored, appVars, clientVars>>

(***************************************************************************)
(* generateSalt(length) called on its own.                                 *)
(***************************************************************************)
GenerateSaltCall(c, length, rnd) ==
  /\ calls[c].pc = "idle"
  /\ LET salt == generateSalt(length, rnd)
     IN  calls' = [calls EXCEPT ![c] =
           [IdleFrame EXCEPT !.op = "generateSalt", !.pc = "done", !.length = length,
                             !.rng = rnd.kind, !.fill = rnd.bytes, !.threw = salt.threw,
                             !.ret = IF salt.threw THEN JSUndefined ELSE JSString(salt.value)]]
  /\ UNCHANGED <<stored, appVars, clientVars>>

(***************************************************************************)
(* The callers of the service and the record store.                        *)
(***************************************************************************)
\* the caller takes the settled result
Return(c) ==
  /\ calls[c].pc = "done"
  /\ calls' = [calls EXCEPT ![c] = IdleFrame]
  /\ UNCHANGED <<stored, appVars, clientVars>>

\* the registration flow stores the record that createPasswordHash returned
Persist(c) ==
  /\ calls[c].pc = "done"
  /\ calls[c].op = "createPasswordHash"
  /\ ~calls[c].threw
  /\ stored' = [value |-> calls[c].ret,
                origin |-> [kind |-> "created", damage |-> "none",
                            pw |-> calls[c].password, fill |-> calls[c].fill,
                            salt |-> calls[c].salt,
                            iterations |-> calls[c].iterations.n]]
  /\ calls' = [calls EXCEPT ![c] = IdleFrame]
  /\ UNCHANGED <<appVars, clientVars>>

\* the iteration counts of records made under another default
OtherIterations == {1, 99999}

\* the salt of the records made elsewhere
OtherSalts == {bytesToHex([i \in 1..DefaultSaltLength |-> (9 + (i - 1) * 37) % 256])}

\* no call is in progress
Quiet == \A c \in Callers : calls[c].pc = "idle"

\* the store holds a record made from password, salt and iterations in the
\* format of createPasswordHash, by a version with another work factor
BuildRecord(password, salt, iterations) ==
  /\ Quiet
  /\ LET hash == hashPassword(password, salt, JSNumber(iterations))
     IN  /\ ~hash.threw
         /\ stored' = [value |-> JSString(formatRecord(iterations, salt, hash.value)),
                       origin |-> [kind |-> "built", damage |-> "none", pw |-> password,
                                   fill |-> <<>>, salt |-> salt, iterations |-> iterations]]
  /\ UNCHANGED <<calls, appVars, clientVars>>

\* another hexadecimal digit than ch
otherHex(ch) == IF ch = "0" THEN "1" ELSE "0"

DamageKinds ==
  {"noLeadingDelimiter", "algorithm", "extraField", "missingField",
   "digestFirst", "digestLast", "digestShort"}

\* a well-formed record r, damaged
Damage(kind, r) ==
  LET n == Len(r)
      d == n - (2 * DigestBytes)
  IN  CASE kind = "noLeadingDelimiter" -> Tail(r)
        [] kind = "algorithm" -> SubSeq(r, 1, 6) \o <<"1">> \o SubSeq(r, 8, n)
        [] kind = "extraField" -> r \o <<"$", "0">>
        [] kind = "missingField" -> SubSeq(r, 1, d - 1)
        [] kind = "digestFirst" ->
             SubSeq(r, 1, d) \o <<otherHex(r[d + 1])>> \o SubSeq(r, d + 2, n)
        [] kind = "digestLast" -> SubSeq(r, 1, n - 1) \o <<otherHex(r[n])>>
        [] OTHER -> SubSeq(r, 1, n - 1)

\* the stored record is damaged in the store
Corrupt(kind) ==
  /\ Quiet
  /\ stored.origin.kind \in {"created", "built"}
  /\ stored' = [value |-> JSString(Damage(kind, stored.value.s)),
                origin |-> [stored.origin EXCEPT !.kind = "damaged", !.damage = kind]]
  /\ UNCHANGED <<calls, appVars, clientVars>>

\* values of the password column that no version of the service wrote: a
\* missing value, the empty string, plaintext passwords, other text
RawValues ==
  {JSUndefined}
    \cup {JSString(p) : p \in Passwords}
    \cup {JSString(<<"a", "$", "A">>), JSString(<<"$", "$", "$", "$">>),
          JSString(<<"$", "a", "$", "1", "$", "a", "$", "a">>)}

StoreRaw(v) ==
  /\ Quiet
  /\ stored' = [value |-> v, origin |-> [NoRecord.origin EXCEPT !.kind = "raw"]]
  /\ UNCHANGED <<calls, appVars, clientVars>>

(***************************************************************************)
(* Records whose iterations field is not a positive decimal integer.       *)
(***************************************************************************)
IterationDamageKinds ==
  {"iterationsEmpty", "iterationsZero", "iterationsNegative", "iterationsText",
   "iterationsSuffix"}

\* the well-formed record r with another text in its iterations field: no
\* text, 0, the count negated, a letter, the count followed by a letter
DamageIterations(kind, r) ==
  LET parts == split(r, "$")
      text  == CASE kind = "iterationsEmpty" -> <<>>
                 [] kind = "iterationsZero" -> <<"0">>
                 [] kind = "iterationsNegative" -> <<"-">> \o parts[3]
                 [] kind = "iterationsText" -> <<"x">>
                 [] OTHER -> parts[3] \o <<"x">>
  IN  <<"$">> \o parts[2] \o <<"$">> \o text \o <<"$">> \o parts[4] \o <<"$">> \o parts[5]

\* the iterations field of the stored record is rewritten in the store
CorruptIterations(kind) ==
  /\ Quiet
  /\ stored.origin.kind = "created"
  /\ stored' = [value |-> JSString(DamageIterations(kind, stored.value.s)),
                origin |-> [stored.origin EXCEPT !.kind = "damaged", !.damage = kind]]
  /\ UNCHANGED <<calls, appVars, clientVars>>

(***************************************************************************)
(* The user database (supabaseDatabase, exported as userDatabase), the     *)
(* login form, the registration form and the session of AuthProvider.      *)
(* users is the table test_users, one row at most for an email (the column *)
(* is unique); a row records the password it was made from.  run is the    *)
(* frame of the handler in progress, auth the user of AuthProvider, ui the *)
(* React state of the two forms.  An error message is the sequence of its  *)
(* parts, null the empty sequence.                                         *)
(***************************************************************************)
Emails == {"alice@example.com", "bob@example.com"}

\* a password that validatePassword accepts, and the same with its upper
\* case letter in lower case
StrongPassword == <<"A", "a", "1", "!", "a", "a", "a", "a">>

CaseChangedPassword == <<"a", "a", "1", "!", "a", "a", "a", "a">>

\* the passwords submitted to verifyUser and to the login form
AppPasswords == {StrongPassword, CaseChangedPassword}

\* the passwords of the users that createUser is called for
CreatedPasswords == {StrongPassword}

\* the random source while the application runs: one fill, or no source
AppOutcomes ==
  {[kind |-> "filled", bytes |-> [i \in 1..DefaultSaltLength |-> (9 + (i - 1) * 37) % 256]],
   [kind |-> "unavailable", bytes |-> <<>>]}

\* createPasswordHash(password), from call to settlement
createPasswordHash(password, rnd) ==
  LET salt == generateSalt(DefaultSaltLength, rnd)
      hash == hashPassword(password, salt.value, JSNumber(DefaultIterations))
  IN  IF salt.threw \/ hash.threw THEN [threw |-> TRUE, value |-> <<>>]
      ELSE [threw |-> FALSE,
            value |-> formatRecord(DefaultIterations, salt.value, hash.value)]

NoOrigin == [kind |-> "none", pw |-> <<>>]

\* null where a user row is expected
NoRow ==
  [id |-> 0, email |-> "", password |-> JSUndefined, avatar_url |-> FALSE,
   preferences |-> FALSE, origin |-> NoOrigin]

\* the thrown values: instances of Error with their message, and the plain
\* error object of a store response
NoError == [isError |-> FALSE, message |-> ""]

JSError(message) == [isError |-> TRUE, message |-> message]

StoreError == [isError |-> FALSE, message |-> "store error"]

\* the value that a failed store request yields: the error of the
\* response, or the exception of a request that could not be sent
storeFailure(outcome) ==
  IF outcome = "throws" THEN JSError("Failed to fetch") ELSE StoreError

NoMessage == <<>>

\* '邮箱或密码错误'
InvalidCredentialsMessage == "invalid email or password"

\* '登录失败'
LoginFailedMessage == "login failed"

\* '注册失败: '
RegisterFailedMessage == "registration failed: "

\* '注册成功！...'
RegisterSuccessMessage == "registration succeeded"

\* '该邮箱已被注册'
EmailTakenMessage == "email already registered"

\* no user in AuthProvider
NoSession == [id |-> 0, email |-> ""]

IdleRun ==
  [op |-> "none", pc |-> "idle", email |-> "", password |-> <<>>, avatar |-> "none",
   rng |-> "none", fill |-> <<>>, hashedPassword |-> JSUndefined, request |-> NoRow,
   lookup |-> "none", user |-> NoRow, newUser |-> NoRow,
   verifyCalled |-> FALSE, verified |-> FALSE, createUserCalled |-> FALSE,
   loginCalled |-> FALSE, onSuccessCalled |-> FALSE,
   authBefore |-> NoSession, usersBefore |-> [e \in Emails |-> NoRow],
   threw |-> FALSE, thrown |-> NoError, ret |-> NoRow, exists |-> FALSE,
   message |-> NoMessage]

InitialUI ==
  [login |-> [isLoading |-> FALSE, error |-> NoMessage],
   register |-> [isLoading |-> FALSE, error |-> NoMessage, success |-> NoMessage]]

\* a JavaScript value in a condition
truthy(v) ==
  CASE v.t = "string" -> v.s # <<>>
    [] v.t = "boolean" -> v.b
    [] v.t = "object" -> TRUE
    [] OTHER -> FALSE

\* the id the store gives to a new row
NextId == 1 + Cardinality({e \in Emails : users[e] # NoRow})

\* the frame of a handler called with the state as it is
StartRun(op, pc, email, password) ==
  [IdleRun EXCEPT !.op = op, !.pc = pc, !.email = email, !.password = password,
                  !.authBefore = auth, !.usersBefore = users]

(***************************************************************************)
(* supabaseDatabase.createUser(userData).                                  *)
(***************************************************************************)
\* the row that createUser submits for insertion
userRowPlaintext(userData, hashedPassword) ==
  [NoRow EXCEPT !.email = userData.email,
                !.password = JSString(userData.password),
                !.origin = [kind |-> "created", pw |-> userData.password]]

userRow(userData, hashedPassword) ==
  [NoRow EXCEPT !.email = userData.email,
                !.password = JSString(hashedPassword),
                !.origin = [kind |-> "created", pw |-> userData.password]]

\* '注册失败: ' followed by error.message, or by String(error)
registerErrorMessage(e) ==
  <<RegisterFailedMessage, IF e.isError THEN e.message ELSE "[object Object]">>

\* the catch and the finally of the submit handler of RegisterForm
registerCatch(f, e) ==
  [run |-> [f EXCEPT !.pc = "done"],
   ui  |-> [ui EXCEPT !.register.isLoading = FALSE,
                      !.register.error = registerErrorMessage(e)]]

\* createUser rethrows e: to its caller, or into the catch of RegisterForm
createUserRejected(f, e) ==
  IF f.op = "registerSubmit" THEN registerCatch(f, e)
  ELSE [run |-> [f EXCEPT !.pc = "done", !.threw = TRUE, !.thrown = e], ui |-> ui]

\* createUser returns the inserted row: to its caller, or to RegisterForm,
\* which goes on with the avatar or with the preferences
createUserResolved(f, row) ==
  IF f.op = "registerSubmit"
    THEN [run |-> [f EXCEPT !.newUser = row,
                            !.pc = IF f.avatar = "valid" THEN "readAsDataURL"
                                   ELSE "createUserPreferences"],
          ui  |-> ui]
    ELSE [run |-> [f EXCEPT !.pc = "done", !.ret = row], ui |-> ui]

\* the call of createUser, up to the await of createPasswordHash
CreateUser(email, password) ==
  /\ run.pc = "idle"
  /\ run' = [StartRun("createUser", "createPasswordHash", email, password)
               EXCEPT !.createUserCalled = TRUE]
  /\ UNCHANGED <<users, auth, ui, serviceVars, clientVars>>

\* createPasswordHash settles: createUser rethrows its error, or submits
\* the row
CreatePasswordHashDone(rnd) ==
  /\ run.pc = "createPasswordHash"
  /\ LET hashed == createPasswordHash(run.password, rnd)
         f      == [run EXCEPT !.rng = rnd.kind, !.fill = rnd.bytes]
         next   == IF hashed.threw
                     THEN createUserRejected(f, JSError("crypto failure"))
                     ELSE [run |-> [f EXCEPT !.pc = "insert",
                                             !.hashedPassword = JSString(hashed.value),
                                             !.request = userRow(f, hashed.value)],
                           ui  |-> ui]
     IN  /\ run' = next.run
         /\ ui' = next.ui
  /\ UNCHANGED <<users, auth, serviceVars, clientVars>>

\* the answers of the store to a request
StoreOutcomes == {"ok", "error", "throws"}

\* the insert settles: the store has the row and returns it, or it answers
\* with an error (a second row for an email always does)
InsertDone(outcome) ==
  /\ run.pc = "insert"
  /\ outcome = "ok" => users[run.email] = NoRow
  /\ LET row  == [run.request EXCEPT !.id = NextId]
         next == IF outcome = "ok" THEN createUserResolved(run, row)
                 ELSE createUserRejected(run, storeFailure(outcome))
     IN  /\ users' = IF outcome = "ok" THEN [users EXCEPT ![run.email] = row] ELSE users
         /\ run' = next.run
         /\ ui' = next.ui
  /\ UNCHANGED <<auth, serviceVars, clientVars>>

(***************************************************************************)
(* supabaseDatabase.getUserByEmail, supabaseDatabase.verifyUser and the    *)
(* submit handler of LoginForm.                                            *)
(***************************************************************************)
\* what getUserByEmail returns when the select settles with outcome and,
\* for a found row, with data
getUserByEmailResultAnyway(outcome, data) == data

getUserByEmailResult(outcome, data) == IF outcome = "ok" THEN data ELSE NoRow

\* the Error that the handler of LoginForm throws when there is no user
\* ("noUser") and when the password does not verify ("wrongPassword")
loginFailureByCause(cause) ==
  IF cause = "noUser" THEN JSError("no such user") ELSE JSError("wrong password")

loginFailure(cause) == JSError(InvalidCredentialsMessage)

\* error instanceof Error ? error.message : '登录失败'
loginErrorMessage(e) == IF e.isError THEN <<e.message>> ELSE <<LoginFailedMessage>>

\* the catch and the finally of the submit handler of LoginForm
loginCatchNoFinally(f, e) ==
  [run |-> [f EXCEPT !.pc = "done", !.threw = TRUE, !.thrown = e],
   ui  |-> [ui EXCEPT !.login.error = loginErrorMessage(e)]]

loginCatch(f, e) ==
  [run |-> [f EXCEPT !.pc = "done", !.threw = TRUE, !.thrown = e],
   ui  |-> [ui EXCEPT !.login.isLoading = FALSE, !.login.error = loginErrorMessage(e)]]

\* the object that the handler passes to login()
loginUser(user) == [id |-> user.id, email |-> user.email]

GetUserByEmail(email) ==
  /\ run.pc = "idle"
  /\ run' = StartRun("getUserByEmail", "getUserByEmail", email, <<>>)
  /\ UNCHANGED <<users, auth, ui, serviceVars, clientVars>>

VerifyUser(email, password) ==
  /\ run.pc = "idle"
  /\ run' = StartRun("verifyUser", "getUserByEmail", email, password)
  /\ UNCHANGED <<users, auth, ui, serviceVars, clientVars>>

\* the submit handler up to its first await
LoginSubmit(email, password) ==
  /\ run.pc = "idle"
  /\ run' = StartRun("loginSubmit", "getUserByEmail", email, password)
  /\ ui' = [ui EXCEPT !.login = [isLoading |-> TRUE, error |-> NoMessage]]
  /\ UNCHANGED <<users, auth, serviceVars, clientVars>>

\* the select settles: with the row of the email, or with an error (as it
\* does when there is no such row), or with an exception
LookupDone(outcome) ==
  /\ run.pc = "getUserByEmail"
  /\ outcome = "ok" => users[run.email] # NoRow
  /\ LET user == getUserByEmailResult(outcome, users[run.email])
         f    == [run EXCEPT !.lookup = outcome, !.user = user]
         next ==
           CASE run.op = "getUserByEmail" ->
                  [run |-> [f EXCEPT !.pc = "done", !.ret = user], ui |-> ui]
             [] run.op = "verifyUser" ->
                  [run |-> IF user # NoRow /\ truthy(user.password)
                             THEN [f EXCEPT !.pc = "verifyPassword"]
                             ELSE [f EXCEPT !.pc = "done", !.ret = NoRow],
                   ui  |-> ui]
             [] OTHER ->
                  IF user = NoRow THEN loginCatch(f, loginFailure("noUser"))
                  ELSE [run |-> [f EXCEPT !.pc = "verifyPassword"], ui |-> ui]
     IN  /\ run' = next.run
         /\ ui' = next.ui
  /\ UNCHANGED <<users, auth, serviceVars, clientVars>>

\* verifyPassword settles: verifyUser returns the user or null; the handler
\* of LoginForm calls login and onSuccess, or throws
VerifyPasswordDone ==
  /\ run.pc = "verifyPassword"
  /\ LET isPasswordValid == verifyPassword(run.password, run.user.password)
         f    == [run EXCEPT !.verifyCalled = TRUE, !.verified = isPasswordValid]
         next ==
           CASE run.op = "verifyUser" ->
                  [run  |-> [f EXCEPT !.pc = "done",
                                      !.ret = IF isPasswordValid THEN f.user ELSE NoRow],
                   ui   |-> ui,
                   auth |-> auth]
             [] run.op # "verifyUser" /\ isPasswordValid ->
                  [run  |-> [f EXCEPT !.pc = "done", !.loginCalled = TRUE,
                                      !.onSuccessCalled = TRUE],
                   ui   |-> [ui EXCEPT !.login.isLoading = FALSE],
                   auth |-> loginUser(f.user)]
             [] OTHER ->
                  [run  |-> loginCatch(f, loginFailure("wrongPassword")).run,
                   ui   |-> loginCatch(f, loginFailure("wrongPassword")).ui,
                   auth |-> auth]
     IN  /\ run' = next.run
         /\ ui' = next.ui
         /\ auth' = next.auth
  /\ UNCHANGED <<users, serviceVars, clientVars>>

\* logout() of AuthProvider
Logout ==
  /\ run.pc = "idle"
  /\ auth # NoSession
  /\ auth' = NoSession
  /\ UNCHANGED <<users, run, ui, serviceVars, clientVars>>

\* the caller takes the settled result
RunReturn ==
  /\ run.pc = "done"
  /\ run' = IdleRun
  /\ UNCHANGED <<users, auth, ui, serviceVars, clientVars>>

\* what becomes of the password column of a row outside the application:
\* the column is not returned, it is emptied, the record loses its
\* algorithm tag, or it holds the plaintext of an earlier schema
RowDamageKinds == {"missing", "empty", "malformed", "plaintext"}

DamagedPassword(kind, row) ==
  CASE kind = "missing" -> JSUndefined
    [] kind = "empty" -> JSString(<<>>)
    [] kind = "malformed" -> JSString(Damage("algorithm", row.password.s))
    [] OTHER -> JSString(row.origin.pw)

DamageRow(email, kind) ==
  /\ run.pc = "idle"
  /\ users[email].origin.kind = "created"
  /\ users' = [users EXCEPT ![email].password = DamagedPassword(kind, users[email]),
                            ![email].origin.kind = kind]
  /\ UNCHANGED <<run, auth, ui, serviceVars, clientVars>>

(***************************************************************************)
(* validatePassword and the submit handler of RegisterForm.                *)
(***************************************************************************)
MinPasswordLength == 8

\* the character classes of the regular expressions [a-z], [A-Z], \d and
\* [@$!%*?&]
isLowercase(ch) == ch \in DOMAIN CodeUnits /\ charCode(ch) \in 97..122

isUppercase(ch) == ch \in DOMAIN CodeUnits /\ charCode(ch) \in 65..90

isDigit(ch) == ch \in DOMAIN CodeUnits /\ charCode(ch) \in 48..57

SpecialCharacters == {"@", "$", "!", "%", "*", "?", "&"}

isSpecial(ch) == ch \in SpecialCharacters

\* /(?=.*[a-z])/.test(password), and the same for the other classes: some
\* character of the password is in the class
hasLowercase(password) == \E i \in 1..Len(password) : isLowercase(password[i])

hasUppercase(password) == \E i \in 1..Len(password) : isUppercase(password[i])

hasDigit(password) == \E i \in 1..Len(password) : isDigit(password[i])

hasSpecial(password) == \E i \in 1..Len(password) : isSpecial(password[i])

\* validatePassword without the test of the special character
validatePasswordNoSpecial(password) ==
  LET errors ==
        (IF Len(password) < MinPasswordLength THEN <<"too short">> ELSE <<>>)
          \o (IF ~hasLowercase(password) THEN <<"no lowercase letter">> ELSE <<>>)
          \o (IF ~hasUppercase(password) THEN <<"no uppercase letter">> ELSE <<>>)
          \o (IF ~hasDigit(password) THEN <<"no digit">> ELSE <<>>)
  IN  [isValid |-> Len(errors) = 0, errors |-> errors]

\* validatePassword(password): the errors in the order of the tests
validatePassword(password) ==
  LET errors ==
        (IF Len(password) < MinPasswordLength THEN <<"too short">> ELSE <<>>)
          \o (IF ~hasLowercase(password) THEN <<"no lowercase letter">> ELSE <<>>)
          \o (IF ~hasUppercase(password) THEN <<"no uppercase letter">> ELSE <<>>)
          \o (IF ~hasDigit(password) THEN <<"no digit">> ELSE <<>>)
          \o (IF ~hasSpecial(password) THEN <<"no special character">> ELSE <<>>)
  IN  [isValid |-> Len(errors) = 0, errors |-> errors]

\* the avatar of the form: none, a file of another type than the allowed
\* ones, a file of more than 5 MB, an allowed file
Avatars == {"none", "badType", "tooLarge", "valid"}

\* validateAvatar(file): the error message, or undefined
validateAvatar(avatar) ==
  CASE avatar = "badType" -> <<"unsupported image type">>
    [] avatar = "tooLarge" -> <<"image larger than 5MB">>
    [] OTHER -> NoMessage

\* the passwords typed into the registration form: a valid one, one for
\* each single missing requirement, one with a special character outside
\* the list, and the empty one
RegisterPasswords ==
  {StrongPassword,
   CaseChangedPassword,
   <<"A", "A", "1", "!", "A", "A", "A", "A">>,
   <<"A", "a", "a", "!", "a", "a", "a", "a">>,
   <<"A", "a", "1", "a", "a", "a", "a", "a">>,
   <<"A", "a", "1", "#", "a", "a", "a", "a">>,
   <<"A", "a", "1", "!", "a", "a", "a">>,
   <<>>}

\* the submit handler up to its first await, or to its end when the
\* password or the avatar is refused
RegisterSubmit(email, password, avatar) ==
  /\ run.pc = "idle"
  /\ LET passwordValidation == validatePassword(password)
         avatarError == validateAvatar(avatar)
         f == [StartRun("registerSubmit", "done", email, password) EXCEPT !.avatar = avatar]
     IN  IF ~passwordValidation.isValid
           THEN /\ run' = f
                /\ ui' = [ui EXCEPT !.register =
                            [isLoading |-> FALSE, error |-> passwordValidation.errors,
                             success |-> NoMessage]]
         ELSE IF avatarError # NoMessage
           THEN /\ run' = f
                /\ ui' = [ui EXCEPT !.register =
                            [isLoading |-> FALSE, error |-> avatarError,
                             success |-> NoMessage]]
         ELSE /\ run' = [f EXCEPT !.pc = "createPasswordHash", !.createUserCalled = TRUE]
              /\ ui' = [ui EXCEPT !.register =
                          [isLoading |-> TRUE, error |-> NoMessage, success |-> NoMessage]]
  /\ UNCHANGED <<users, auth, serviceVars, clientVars>>

\* the FileReader settles: the data URL, or an error that is logged
ReadAvatarDone(outcome) ==
  /\ run.pc = "readAsDataURL"
  /\ run' = [run EXCEPT !.pc = IF outcome = "ok" THEN "updateUserAvatar"
                               ELSE "createUserPreferences"]
  /\ UNCHANGED <<users, auth, ui, serviceVars, clientVars>>

\* updateUserAvatar settles: the row has the avatar, or an error that is
\* logged
UpdateUserAvatarDone(outcome) ==
  /\ run.pc = "updateUserAvatar"
  /\ users' = IF outcome = "ok" THEN [users EXCEPT ![run.email].avatar_url = TRUE]
              ELSE users
  /\ run' = [run EXCEPT !.pc = "createUserPreferences",
                        !.newUser.avatar_url = (outcome = "ok")]
  /\ UNCHANGED <<auth, ui, serviceVars, clientVars>>

\* createUserPreferences settles: the preferences row is stored and the
\* handler reports the success, or the error reaches the catch
CreateUserPreferencesDone(outcome) ==
  /\ run.pc = "createUserPreferences"
  /\ LET next == IF outcome = "ok"
                   THEN [run |-> [run EXCEPT !.pc = "done", !.onSuccessCalled = TRUE],
                         ui  |-> [ui EXCEPT !.register.isLoading = FALSE,
                                            !.register.success = <<RegisterSuccessMessage>>]]
                   ELSE registerCatch(run, storeFailure(outcome))
     IN  /\ users' = IF outcome = "ok" THEN [users EXCEPT ![run.email].preferences = TRUE]
                     ELSE users
         /\ run' = next.run
         /\ ui' = next.ui
  /\ UNCHANGED <<auth, serviceVars, clientVars>>

(***************************************************************************)
(* supabaseDatabase.checkEmailExists(email) and checkEmailUniqueness.      *)
(***************************************************************************)
\* the bodies of an OK response: the matching rows, no row, a JSON value
\* that is no array, text that is no JSON
ResponseBodies == {"rows", "empty", "object", "invalid"}

\* Array.isArray(data) && data.length > 0, false by the catch when
\* response.json() rejects
checkEmailExistsAnyBody(body) == body # "invalid"

checkEmailExistsResult(body) == body = "rows"

\* what checkEmailUniqueness makes of the answer of checkEmailExists
checkEmailUniquenessResult(emailExists) ==
  IF emailExists THEN <<EmailTakenMessage>> ELSE NoMessage

\* checkEmailExists settles with emailExists; under checkEmailUniqueness
\* the message follows
checkEmailSettled(f, emailExists) ==
  [f EXCEPT !.pc = "done", !.exists = emailExists,
            !.message = IF f.op = "checkEmailUniqueness"
                          THEN checkEmailUniquenessResult(emailExists)
                          ELSE NoMessage]

\* the call, by itself (op checkEmailExists) or under checkEmailUniqueness,
\* up to the await of fetch; without the configuration of the store it
\* ends at once
CheckEmailExists(op, email, configured) ==
  /\ run.pc = "idle"
  /\ LET f == [StartRun(op, "fetch", email, <<>>) EXCEPT !.lookup = "unconfigured"]
     IN  run' = IF configured THEN [f EXCEPT !.lookup = "none"]
                ELSE checkEmailSettled(f, FALSE)
  /\ UNCHANGED <<users, auth, ui, serviceVars, clientVars>>

FetchOutcomes == {"ok", "notOk", "networkError"}

\* fetch settles: an OK response, another response, or a rejection
FetchDone(outcome) ==
  /\ run.pc = "fetch"
  /\ LET f == [run EXCEPT !.lookup = outcome]
     IN  run' = CASE outcome = "ok" -> [f EXCEPT !.pc = "json"]
                  [] outcome = "notOk" -> [f EXCEPT !.pc = "text"]
                  [] OTHER -> checkEmailSettled(f, FALSE)
  /\ UNCHANGED <<users, auth, ui, serviceVars, clientVars>>

\* response.text() of a response that is not OK settles: the error is
\* thrown and caught
ResponseTextDone ==
  /\ run.pc = "text"
  /\ run' = checkEmailSettled(run, FALSE)
  /\ UNCHANGED <<users, auth, ui, serviceVars, clientVars>>

\* response.json() settles
ResponseJsonDone(body) ==
  /\ run.pc = "json"
  /\ body = "rows" => users[run.email] # NoRow
  /\ run' = checkEmailSettled([run EXCEPT !.lookup = body], checkEmailExistsResult(body))
  /\ UNCHANGED <<users, auth, ui, serviceVars, clientVars>>

(***************************************************************************)
(* AuthProvider: the user, its copy in localStorage, and the view of       *)
(* AuthContent.                                                            *)
(***************************************************************************)
\* localStorage has no entry 'user'
NoItem == [present |-> FALSE, id |-> <<>>, email |-> <<>>]

\* JSON.stringify(user): the number in decimal digits, the string in quotes
JSONstringify(user) ==
  [present |-> TRUE, id |-> numberToString(user.id), email |-> <<"\"", user.email, "\"">>]

\* JSON.parse(text) of such a text
JSONparse(text) == [id |-> digitsPrefix(text.id, 0, 10), email |-> text.email[2]]

\* !!user
isAuthenticated(user) == user # NoSession

\* the initial state of user: the saved user, or null
savedUser(item) == IF item.present THEN JSONparse(item) ELSE NoSession

\* the entry 'user' after the effect that keeps the user in localStorage
persistUser(user, item) == IF isAuthenticated(user) THEN JSONstringify(user) ELSE NoItem

\* the initial currentView of AuthContent
initialView(authenticated) == IF authenticated THEN "dashboard" ELSE "register"

\* the components AuthContent renders
AuthContentByView(authenticated, currentView) ==
  IF currentView \in {"register", "login"} THEN {currentView}
  ELSE IF authenticated THEN {"dashboard"} ELSE {}

AuthContent(authenticated, currentView) ==
  IF authenticated THEN {"dashboard"}
  ELSE IF currentView \in {"register", "login"} THEN {currentView} ELSE {}

\* the components on the page
Shown == AuthContent(isAuthenticated(auth), browser.currentView)

\* the page as it is first rendered: nothing saved, the effect of the mount
\* still to run
InitialBrowser ==
  [item |-> NoItem, effectRan |-> FALSE, deps |-> NoSession,
   currentView |-> initialView(FALSE)]

\* the effect has run for the user as it is now
EffectSettled == browser.effectRan /\ browser.deps = auth

\* the effect of AuthProvider runs: after the mount and after every change
\* of user
PersistEffect ==
  /\ ~EffectSettled
  /\ browser' = [browser EXCEPT !.item = persistUser(auth, browser.item),
                                !.effectRan = TRUE, !.deps = auth]
  /\ UNCHANGED <<appVars, serviceVars, storeVars, netVars>>

\* the page is loaded again: AuthProvider and AuthContent are mounted with
\* what localStorage holds, a handler in flight is gone
Reload ==
  /\ browser.effectRan
  /\ auth' = savedUser(browser.item)
  /\ browser' = [browser EXCEPT !.effectRan = FALSE, !.deps = NoSession,
                                !.currentView =
                                  initialView(isAuthenticated(savedUser(browser.item)))]
  /\ run' = IdleRun
  /\ ui' = InitialUI
  /\ UNCHANGED <<users, serviceVars, storeVars, netVars>>

\* switchToLogin, from the link of RegisterForm
SwitchToLogin ==
  /\ "register" \in Shown
  /\ browser' = [browser EXCEPT !.currentView = "login"]
  /\ UNCHANGED <<appVars, serviceVars, storeVars, netVars>>

\* switchToRegister, from the link of LoginForm
SwitchToRegister ==
  /\ "login" \in Shown
  /\ browser' = [browser EXCEPT !.currentView = "register"]
  /\ UNCHANGED <<appVars, serviceVars, storeVars, netVars>>

(***************************************************************************)
(* useAppStore and its hook useAuth.                                       *)
(***************************************************************************)
JSNull == [t |-> "null"]

JSObject(id) == [t |-> "object", id |-> id]

\* the users and the tokens the store is called with
AppUsers == {JSNull} \cup {JSObject(id) : id \in 1..3}

AppTokens == {JSString(<<>>)} \cup {JSString(<<"t", HexDigits[i]>>) : i \in 1..4}

Permissions == {"read", "write"}

NoAppCall == [op |-> "none", ret |-> FALSE]

InitialApp ==
  [user |-> JSNull, isAuthenticated |-> FALSE, token |-> JSNull, call |-> NoAppCall]

\* useAuth().isAuthenticated
useAuth(state) == truthy(state.user) /\ truthy(state.token)

\* login(token, user)
AppLogin(token, user) ==
  /\ app' = [app EXCEPT !.token = token, !.user = user, !.isAuthenticated = TRUE,
                        !.call = [op |-> "login", ret |-> FALSE]]
  /\ UNCHANGED <<serviceVars, appVars, browser, userStoreVars, netVars>>

\* logout()
AppLogout ==
  /\ app' = [app EXCEPT !.token = JSNull, !.user = JSNull, !.isAuthenticated = FALSE,
                        !.call = [op |-> "logout", ret |-> FALSE]]
  /\ UNCHANGED <<serviceVars, appVars, browser, userStoreVars, netVars>>

\* updateUser(user)
AppUpdateUser(user) ==
  /\ app' = [app EXCEPT !.user = user, !.call = [op |-> "updateUser", ret |-> FALSE]]
  /\ UNCHANGED <<serviceVars, appVars, browser, userStoreVars, netVars>>

\* hasPermission(permission)
HasPermission(permission) ==
  /\ app' = [app EXCEPT !.call = [op |-> permission, ret |-> truthy(app.user)]]
  /\ UNCHANGED <<serviceVars, appVars, browser, userStoreVars, netVars>>

\* a component renders with useAuth()
UseAuth ==
  /\ app' = [app EXCEPT !.call = [op |-> "useAuth", ret |-> useAuth(app)]]
  /\ UNCHANGED <<serviceVars, appVars, browser, userStoreVars, netVars>>

\* clearApp()
ClearApp ==
  /\ app' = [app EXCEPT !.user = JSNull, !.token = JSNull, !.isAuthenticated = FALSE,
                        !.call = [op |-> "clearApp", ret |-> FALSE]]
  /\ UNCHANGED <<serviceVars, appVars, browser, userStoreVars, netVars>>

(***************************************************************************)
(* useUserStore (Zustand) and the action atoms of userAtoms (Jotai), with  *)
(* the requests to ApiService.users they wait for.                         *)
(***************************************************************************)
\* requests of the store that can be in flight together
MaxInFlight == 2
\* longest list of users
MaxUsers == 2

Slots == 1..MaxInFlight

UserIds == {1, 2}

\* a user as the API returns it: its id and the revision of its data
ApiUser(id, rev) == [id |-> id, rev |-> rev]

NoUser == ApiUser(0, "none")

\* the lists GET /users answers with
UserLists == {<<>>, <<ApiUser(1, "created")>>, <<ApiUser(2, "created"), ApiUser(1, "created")>>}

StoreOps ==
  {"fetchUsers", "fetchUserById", "fetchUserByEmail", "createUser", "updateUser",
   "deleteUser", "updateUserPreferences"}

\* the operations that userAtoms has too
SharedOps == {"createUser", "updateUser", "deleteUser"}

NoRequest == [op |-> "none", id |-> 0, softDelete |-> FALSE, jotai |-> "none"]

InitialStore ==
  [users |-> <<>>, currentUser |-> NoUser, loading |-> FALSE, error |-> NoMessage,
   success |-> NoMessage]

InitialAtoms ==
  [users |-> <<>>, currentUser |-> NoUser, error |-> NoMessage, success |-> NoMessage]

\* the answers of the API: success with data, success: false with an error
\* text, success: false without one, a rejection with an ApiError
ResponseKinds == {"ok", "failed", "empty", "throws"}

\* the data of a successful answer to the request
ResponseData(f) ==
  CASE f.op = "fetchUsers" -> UserLists
    [] f.op = "createUser" -> {ApiUser(id, "created") : id \in UserIds}
    [] f.op \in {"fetchUserById", "fetchUserByEmail"} ->
         {ApiUser(f.id, rev) : rev \in {"created", "updated"}}
    [] OTHER -> {ApiUser(f.id, "updated")}

\* the fallback text of the operation
defaultError(op) ==
  CASE op = "fetchUsers" -> "Failed to fetch users"
    [] op = "fetchUserById" -> "User not found"
    [] op = "fetchUserByEmail" -> "Failed to fetch user"
    [] op = "createUser" -> "Failed to create user"
    [] op = "updateUser" -> "Failed to update user"
    [] op = "deleteUser" -> "Failed to delete user"
    [] OTHER -> "Failed to update preferences"

\* the message of the Error that reaches the catch
caughtMessage(op, kind) ==
  CASE kind = "throws" -> <<"Request timeout">>
    [] kind = "failed" -> <<"server error">>
    [] OTHER -> <<defaultError(op)>>

successMessage(op, softDelete) ==
  CASE op = "fetchUsers" -> "Users loaded successfully"
    [] op \in {"fetchUserById", "fetchUserByEmail"} -> "User loaded successfully"
    [] op = "createUser" -> "User created successfully"
    [] op = "updateUser" -> "User updated successfully"
    [] op = "deleteUser" ->
         IF softDelete THEN "User soft deleted successfully" ELSE "User deleted successfully"
    [] OTHER -> "User preferences updated successfully"

\* users.map(user => user.id === id ? data : user)
replaceUser(list, id, data) ==
  [i \in DOMAIN list |-> IF list[i].id = id THEN data ELSE list[i]]

\* users.filter(user => user.id !== id)
removeUser(list, id) == SelectSeq(list, LAMBDA user : user.id # id)

\* currentUser?.id === id ? data : currentUser
replaceCurrent(currentUser, id, data) == IF currentUser.id = id THEN data ELSE currentUser

\* the set() at the start of an operation of useUserStore
storeBegin(s, op) ==
  IF op \in {"fetchUserById", "fetchUserByEmail"}
    THEN [s EXCEPT !.loading = TRUE, !.error = NoMessage]
    ELSE [s EXCEPT !.loading = TRUE, !.error = NoMessage, !.success = NoMessage]

\* the set() of the catch of an operation of useUserStore
storeCatch(s, op, message) ==
  IF op \in {"fetchUserById", "fetchUserByEmail"}
    THEN [s EXCEPT !.loading = FALSE, !.error = message, !.currentUser = NoUser]
    ELSE [s EXCEPT !.loading = FALSE, !.error = message, !.success = NoMessage]

\* users of deleteUser: a soft delete keeps the list
storeDelete(list, id, softDelete) == IF softDelete THEN list ELSE removeUser(list, id)

\* the set() of an operation of useUserStore after the answer with data
storeSuccess(s, f, data) ==
  LET done == [s EXCEPT !.loading = FALSE,
                        !.success = <<successMessage(f.op, f.softDelete)>>]
  IN  CASE f.op = "fetchUsers" -> [done EXCEPT !.users = data]
        [] f.op \in {"fetchUserById", "fetchUserByEmail"} ->
             [done EXCEPT !.currentUser = data]
        [] f.op = "createUser" ->
             [done EXCEPT !.users = <<data>> \o s.users, !.currentUser = data]
        [] f.op = "deleteUser" ->
             [done EXCEPT !.users = storeDelete(s.users, f.id, f.softDelete),
                          !.currentUser = replaceCurrent(s.currentUser, f.id, NoUser)]
        [] OTHER ->
             [done EXCEPT !.users = replaceUser(s.users, f.id, data),
                          !.currentUser = replaceCurrent(s.currentUser, f.id, data)]

\* useUserStore after the request of f settles
storeSettle(s, f, kind, data) ==
  CASE kind = "ok" \/ (f.op = "deleteUser" /\ kind # "throws") -> storeSuccess(s, f, data)
    [] f.op = "fetchUserByEmail" /\ kind # "throws" ->
         [s EXCEPT !.loading = FALSE, !.currentUser = NoUser]
    [] OTHER -> storeCatch(s, f.op, caughtMessage(f.op, kind))

\* what set(null) does in a write function of Jotai: the library rejects the
\* missing atom with a TypeError, or lets it pass
SetNullOutcomes == {"throws", "ignored"}

\* the atoms after the catch of an action atom
atomsCatch(a, message) == [a EXCEPT !.error = message]

\* the atoms after the answer to the request of an action atom
atomsSettle(a, f, kind, data) ==
  CASE f.op = "deleteUser" /\ kind # "throws" ->
         [a EXCEPT !.users = removeUser(a.users, f.id),
                   !.currentUser = replaceCurrent(a.currentUser, f.id, NoUser),
                   !.success = <<successMessage(f.op, f.softDelete)>>]
    [] f.op = "createUser" /\ kind = "ok" ->
         [a EXCEPT !.users = <<data>> \o a.users, !.currentUser = data,
                   !.success = <<successMessage(f.op, f.softDelete)>>]
    [] f.op = "updateUser" /\ kind = "ok" ->
         [a EXCEPT !.users = replaceUser(a.users, f.id, data),
                   !.currentUser = replaceCurrent(a.currentUser, f.id, data),
                   !.success = <<successMessage(f.op, f.softDelete)>>]
    [] OTHER -> atomsCatch(a, caughtMessage(f.op, kind))

\* a request of the store is in flight
InFlight == \E slot \in Slots : requests[slot].op # "none"

\* an operation of useUserStore is called: up to its await
StoreCall(slot, op, id, softDelete) ==
  /\ requests[slot] = NoRequest
  /\ op \in {"fetchUsers", "createUser"} => id = 1
  /\ op # "deleteUser" => softDelete
  /\ requests' = [requests EXCEPT ![slot] =
                    [op |-> op, id |-> IF op \in {"fetchUsers", "createUser"} THEN 0 ELSE id,
                     softDelete |-> softDelete, jotai |-> "none"]]
  /\ store' = storeBegin(store, op)
  /\ UNCHANGED <<serviceVars, appVars, browser, app, atoms, netVars>>

\* the same operation is called on useUserStore and on its action atom
BothCall(op, id, softDelete, setNull) ==
  /\ ~InFlight
  /\ op \in SharedOps
  /\ op = "createUser" => id = 1
  /\ op # "deleteUser" => softDelete
  /\ requests' = [requests EXCEPT ![1] =
                    [op |-> op, id |-> IF op = "createUser" THEN 0 ELSE id,
                     softDelete |-> softDelete,
                     jotai |-> IF setNull = "throws" THEN "threw" ELSE "await"]]
  /\ store' = storeBegin(store, op)
  /\ atoms' = IF setNull = "throws"
                THEN atomsCatch(atoms, <<"Cannot read properties of null">>)
                ELSE atoms
  /\ UNCHANGED <<serviceVars, appVars, browser, app, netVars>>

\* the request of the slot settles, and the operations waiting for it go on
\* to their end
RequestDone(slot, kind) ==
  /\ requests[slot].op # "none"
  /\ (kind = "ok" /\ requests[slot].op = "createUser") =>
       (Len(store.users) < MaxUsers /\ Len(atoms.users) < MaxUsers)
  /\ \E data \in ResponseData(requests[slot]) :
       /\ store' = storeSettle(store, requests[slot], kind, data)
       /\ atoms' = IF requests[slot].jotai = "await"
                     THEN atomsSettle(atoms, requests[slot], kind, data)
                     ELSE atoms
  /\ requests' = [requests EXCEPT ![slot] = NoRequest]
  /\ UNCHANGED <<serviceVars, appVars, browser, app, netVars>>

(***************************************************************************)
(* withRetry(fn, maxRetries).                                              *)
(***************************************************************************)
\* largest maxRetries withRetry is called with
MaxRetriesBound == 5

\* new ApiError(message, status)
ApiError(status) == [isError |-> TRUE, isApiError |-> TRUE, status |-> status]

\* an Error that is no ApiError, and a thrown value that is no Error
PlainError == [isError |-> TRUE, isApiError |-> FALSE, status |-> 0]

ThrownValue == [isError |-> FALSE, isApiError |-> FALSE, status |-> 0]

\* lastError before any attempt
NoLastError == [isError |-> FALSE, isApiError |-> FALSE, status |-> -1]

\* the statuses that are not retried
NoRetryStatuses == {400, 401, 403, 404, 409}

\* what fn rejects with
FnErrors ==
  {ApiError(status) : status \in NoRetryStatuses \cup {408, 429, 500}}
    \cup {PlainError, ThrownValue}

\* the outcomes of fn: a value, or a rejection
FnOutcomes ==
  {[ok |-> TRUE, error |-> NoLastError, value |-> v] : v \in {"a", "b"}}
    \cup {[ok |-> FALSE, error |-> e, value |-> ""] : e \in FnErrors}

\* the error ends the retries
noRetry(error) == error.isApiError /\ error.status \in NoRetryStatuses

\* Math.min(1000 * Math.pow(2, attempt - 1), 5000)
retryDelayUncapped(attempt) == 1000 * 2 ^ (attempt - 1)

retryDelay(attempt) ==
  IF 1000 * 2 ^ (attempt - 1) < 5000 THEN 1000 * 2 ^ (attempt - 1) ELSE 5000

IdleRetry ==
  [pc |-> "idle", maxRetries |-> 0, attempt |-> 0, results |-> <<>>, delays |-> <<>>,
   lastError |-> NoLastError, threw |-> FALSE, thrown |-> NoLastError, ret |-> ""]

\* the head of the loop: fn is called, or the loop is left and lastError is
\* thrown
retryLoop(f) ==
  IF f.attempt <= f.maxRetries THEN [f EXCEPT !.pc = "fn"]
  ELSE [f EXCEPT !.pc = "done", !.threw = TRUE, !.thrown = f.lastError]

\* withRetry(fn, maxRetries), up to the first await
WithRetry(maxRetries) ==
  /\ retry.pc = "idle"
  /\ retry' = retryLoop([IdleRetry EXCEPT !.maxRetries = maxRetries, !.attempt = 1])
  /\ UNCHANGED <<serviceVars, appVars, browser, storeVars, http>>

\* fn settles
FnDone(outcome) ==
  /\ retry.pc = "fn"
  /\ LET f == [retry EXCEPT !.results = Append(@, outcome)]
         g == [f EXCEPT !.lastError = outcome.error]
     IN  retry' =
           IF outcome.ok THEN [f EXCEPT !.pc = "done", !.ret = outcome.value]
           ELSE IF g.attempt = g.maxRetries \/ noRetry(outcome.error)
             THEN [g EXCEPT !.pc = "done", !.threw = TRUE, !.thrown = g.lastError]
           ELSE [g EXCEPT !.pc = "sleep", !.delays = Append(@, retryDelay(g.attempt))]
  /\ UNCHANGED <<serviceVars, appVars, browser, storeVars, http>>

\* the timer of the delay fires
RetryTimerDone ==
  /\ retry.pc = "sleep"
  /\ retry' = retryLoop([retry EXCEPT !.attempt = @ + 1])
  /\ UNCHANGED <<serviceVars, appVars, browser, storeVars, http>>

\* the caller takes the settled result
RetryReturn ==
  /\ retry.pc = "done"
  /\ retry' = IdleRetry
  /\ UNCHANGED <<serviceVars, appVars, browser, storeVars, http>>

(***************************************************************************)
(* HttpClient: request, get, post, put and delete.  A URL is the sequence  *)
(* of its parts: the origin, the segments of the path, and the characters  *)
(* of the query.                                                           *)
(***************************************************************************)
\* API_CONFIG.baseURL and API_CONFIG.apiPrefix
Origin == "http://localhost:3001"

ApiPrefix == "/api"

\* the baseURL of httpClient: `${API_CONFIG.baseURL}${API_CONFIG.apiPrefix}`
BaseURL == <<Origin, ApiPrefix>>

PathSegments == {ApiPrefix, "/users", "/stats", "/1"}

\* the endpoints of ApiService.users
Endpoints == {<<"/users">>, <<"/users", "/stats">>, <<"/users", "/1">>}

\* the parameters of getAll that are passed: none, or page and limit with
\* a gender that is undefined, null or given
ParamSets ==
  {<<>>}
    \cup {<<[key |-> "page", value |-> JSNumber(page)],
            [key |-> "limit", value |-> JSNumber(10)],
            [key |-> "gender", value |-> gender]>> :
            page \in 1..2, gender \in {JSUndefined, JSNull, JSString(<<"o", "t", "h", "e", "r">>)}}

\* String(value) of a number or a string
String(value) == IF "n" \in DOMAIN value THEN numberToString(value.n) ELSE value.s

\* url.searchParams after the appends of get
searchParams(params) ==
  SelectSeq(params, LAMBDA p : p.value # JSUndefined /\ p.value # JSNull)

RECURSIVE search(_, _)
\* url.search: '?' and the pairs joined by '&'
search(pairs, first) ==
  IF pairs = <<>> THEN <<>>
  ELSE <<IF first THEN "?" ELSE "&", Head(pairs).key, "=">> \o String(Head(pairs).value)
         \o search(Tail(pairs), FALSE)

\* url.pathname of new URL(text): the segments after the origin
pathname(text) == SelectSeq(text, LAMBDA part : part \in PathSegments)

\* the URL that request fetches: `${this.baseURL}${endpoint}`
requestURL(endpoint) == BaseURL \o endpoint

\* the endpoint that get passes to request: url.pathname + url.search of
\* new URL(`${this.baseURL}${endpoint}`) with the parameters appended
getEndpoint(endpoint, params) ==
  pathname(BaseURL \o endpoint) \o search(searchParams(params), TRUE)

\* the statuses of the responses
OkStatuses == {200, 201}

ErrorStatuses == {400, 404, 409, 500}

\* the bodies: a JSON object, the JSON value null, text that is no JSON
Bodies == {"object", "null", "text"}

NoThrown == [isApiError |-> FALSE, status |-> 0, code |-> "none"]

IdleHttp ==
  [pc |-> "idle", method |-> "none", endpoint |-> <<>>, params |-> <<>>, url |-> <<>>,
   timer |-> "none", status |-> 0, threw |-> FALSE, thrown |-> NoThrown, ret |-> "none"]

\* the catch of request
requestCatch(f, error) ==
  [f EXCEPT !.pc = "done", !.threw = TRUE,
            !.timer = IF @ = "armed" THEN "cleared" ELSE @,
            !.thrown =
              CASE error.isApiError -> error
                [] error.name = "AbortError" ->
                     [isApiError |-> TRUE, status |-> 408, code |-> "TIMEOUT"]
                [] error.isError ->
                     [isApiError |-> TRUE, status |-> 500, code |-> "NETWORK_ERROR"]
                [] OTHER -> [isApiError |-> TRUE, status |-> 500, code |-> "UNKNOWN_ERROR"]]

\* an Error of the platform
PlatformError(name) ==
  [isApiError |-> FALSE, isError |-> TRUE, name |-> name, status |-> 0, code |-> "none"]

\* request(endpoint, options), up to the await of fetch
Request(f, endpoint) ==
  [f EXCEPT !.pc = "fetch", !.url = requestURL(endpoint), !.timer = "armed"]

\* get(endpoint, params)
HttpGet(endpoint, params) ==
  /\ http.pc = "idle"
  /\ http' = Request([IdleHttp EXCEPT !.method = "GET", !.endpoint = endpoint,
                                      !.params = params],
                     getEndpoint(endpoint, params))
  /\ UNCHANGED <<serviceVars, appVars, browser, storeVars, retry>>

\* post(endpoint, data), put(endpoint, data) and delete(endpoint)
HttpSend(method, endpoint) ==
  /\ http.pc = "idle"
  /\ http' = Request([IdleHttp EXCEPT !.method = method, !.endpoint = endpoint], endpoint)
  /\ UNCHANGED <<serviceVars, appVars, browser, storeVars, retry>>

\* the timer of the timeout fires: controller.abort()
HttpTimeout ==
  /\ http.timer = "armed"
  /\ http' = [http EXCEPT !.timer = "fired"]
  /\ UNCHANGED <<serviceVars, appVars, browser, storeVars, retry>>

\* fetch settles: with a response, or it rejects because of the abort or
\* of the network
HttpFetchDone(status) ==
  /\ http.pc = "fetch"
  /\ http' = CASE http.timer = "fired" -> requestCatch(http, PlatformError("AbortError"))
               [] status = 0 -> requestCatch(http, PlatformError("TypeError"))
               [] OTHER -> [http EXCEPT !.pc = "json", !.status = status, !.timer = "cleared"]
  /\ UNCHANGED <<serviceVars, appVars, browser, storeVars, retry>>

\* response.json() settles, and request goes on to its end
HttpJsonDone(body) ==
  /\ http.pc = "json"
  /\ http' =
       CASE body = "text" -> requestCatch(http, PlatformError("SyntaxError"))
         [] http.status \in OkStatuses -> [http EXCEPT !.pc = "done", !.ret = body]
         [] body = "null" -> requestCatch(http, PlatformError("TypeError"))
         [] OTHER ->
              requestCatch(http, [isApiError |-> TRUE, status |-> http.status,
                                  code |-> "none"])
  /\ UNCHANGED <<serviceVars, appVars, browser, storeVars, retry>>

\* the caller takes the settled result
HttpReturn ==
  /\ http.pc = "done"
  /\ http' = IdleHttp
  /\ UNCHANGED <<serviceVars, appVars, browser, storeVars, retry>>

(***************************************************************************)
(* Specifications.                                                         *)
(***************************************************************************)
\* the inputs of the key derivation that occur in the model
DigestInputs ==
  {<<p, s, n>> : p \in Passwords,
                 s \in OtherSalts \cup {bytesToHex(f) : f \in RandomFills(DefaultSaltLength)},
                 n \in OtherIterations \cup {DefaultIterations}}

\* the key derivation has no collision on them
CollisionFree ==
  Cardinality({hashPassword(x[1], x[2], JSNumber(x[3])).value : x \in DigestInputs})
    = Cardinality(DigestInputs)

\* the inputs of the key derivation that occur in the application
AppDigestInputs ==
  {<<p, bytesToHex(rnd.bytes)>> : p \in AppPasswords,
                                  rnd \in {o \in AppOutcomes : o.kind = "filled"}}

\* the key derivation has no collision on them
AppCollisionFree ==
  Cardinality({hashPassword(x[1], x[2], JSNumber(DefaultIterations)).value :
                 x \in AppDigestInputs})
    = Cardinality(AppDigestInputs)

Init ==
  /\ CollisionFree
  /\ AppCollisionFree
  /\ calls = [c \in Callers |-> IdleFrame]
  /\ stored = NoRecord
  /\ users = [e \in Emails |-> NoRow]
  /\ run = IdleRun
  /\ auth = NoSession
  /\ ui = InitialUI
  /\ browser = InitialBrowser
  /\ app = InitialApp
  /\ store = InitialStore
  /\ atoms = InitialAtoms
  /\ requests = [slot \in Slots |-> NoRequest]
  /\ retry = IdleRetry
  /\ http = IdleHttp

\* the byte lengths generateSalt is called with
SaltLengths == {0, 1, 2, 3, DefaultSaltLength, RandomQuota + 1}

\* one caller, every input
Next ==
  \/ \E p \in Passwords, rnd \in RandomOutcomes(DefaultSaltLength) :
       CreateStart(MainCaller, p, rnd)
  \/ \E p \in Passwords : VerifyStart(MainCaller, p)
  \/ ImportKeyDone(MainCaller)
  \/ DeriveBitsDone(MainCaller)
  \/ \E n \in SaltLengths : \E rnd \in RandomOutcomes(n) :
       GenerateSaltCall(MainCaller, n, rnd)
  \/ Return(MainCaller)
  \/ Persist(MainCaller)
  \/ \E p \in Passwords, s \in OtherSalts, n \in OtherIterations : BuildRecord(p, s, n)
  \/ \E kind \in DamageKinds : Corrupt(kind)
  \/ \E v \in RawValues : StoreRaw(v)

Spec == Init /\ [][Next]_vars

\* the fill of the random source in the concurrent specification
ConcOutcomes ==
  {[kind |-> "filled", bytes |-> [i \in 1..DefaultSaltLength |-> (9 + (i - 1) * 37) % 256]]}

\* concurrent callers, whose calls interleave at every await
NextConc ==
  \E c \in Callers :
    \/ \E p \in ConcPasswords, rnd \in ConcOutcomes : CreateStart(c, p, rnd)
    \/ \E p \in ConcPasswords : VerifyStart(c, p)
    \/ ImportKeyDone(c)
    \/ DeriveBitsDone(c)
    \/ Return(c)
    \/ Persist(c)

SpecConc == Init /\ [][NextConc]_vars

\* one caller, whose stored record has its iterations field rewritten
NextIterations ==
  \/ \E p \in ConcPasswords, rnd \in ConcOutcomes : CreateStart(MainCaller, p, rnd)
  \/ \E p \in ConcPasswords : VerifyStart(MainCaller, p)
  \/ ImportKeyDone(MainCaller)
  \/ DeriveBitsDone(MainCaller)
  \/ Return(MainCaller)
  \/ Persist(MainCaller)
  \/ \E kind \in IterationDamageKinds : CorruptIterations(kind)

SpecIterations == Init /\ [][NextIterations]_vars

\* the user database and the login form, one handler at a time
NextAccounts ==
  \/ \E e \in Emails, p \in CreatedPasswords : CreateUser(e, p)
  \/ \E rnd \in AppOutcomes : CreatePasswordHashDone(rnd)
  \/ \E outcome \in StoreOutcomes : InsertDone(outcome)
  \/ \E e \in Emails : GetUserByEmail(e)
  \/ \E e \in Emails, p \in AppPasswords : VerifyUser(e, p)
  \/ \E e \in Emails, p \in AppPasswords : LoginSubmit(e, p)
  \/ \E outcome \in StoreOutcomes : LookupDone(outcome)
  \/ VerifyPasswordDone
  \/ Logout
  \/ RunReturn
  \/ \E e \in Emails, kind \in RowDamageKinds : DamageRow(e, kind)

SpecAccounts == Init /\ [][NextAccounts]_vars

\* the registration form and the check of the email, one handler at a time
NextRegister ==
  \/ \E e \in Emails, p \in RegisterPasswords, a \in Avatars : RegisterSubmit(e, p, a)
  \/ \E rnd \in AppOutcomes : CreatePasswordHashDone(rnd)
  \/ \E outcome \in StoreOutcomes : InsertDone(outcome)
  \/ \E outcome \in {"ok", "error"} : ReadAvatarDone(outcome)
  \/ \E outcome \in StoreOutcomes : UpdateUserAvatarDone(outcome)
  \/ \E outcome \in StoreOutcomes : CreateUserPreferencesDone(outcome)
  \/ \E op \in {"checkEmailExists", "checkEmailUniqueness"}, e \in Emails,
        configured \in BOOLEAN : CheckEmailExists(op, e, configured)
  \/ \E outcome \in FetchOutcomes : FetchDone(outcome)
  \/ ResponseTextDone
  \/ \E body \in ResponseBodies : ResponseJsonDone(body)
  \/ RunReturn

SpecRegister == Init /\ [][NextRegister]_vars

\* the application in the browser: sign-up, login from the login form,
\* logout from the dashboard, the effect of AuthProvider and page loads
NextSession ==
  \/ \E e \in Emails, p \in CreatedPasswords : CreateUser(e, p)
  \/ \E rnd \in AppOutcomes : CreatePasswordHashDone(rnd)
  \/ \E outcome \in StoreOutcomes : InsertDone(outcome)
  \/ \E e \in Emails, p \in AppPasswords : "login" \in Shown /\ LoginSubmit(e, p)
  \/ \E outcome \in StoreOutcomes : LookupDone(outcome)
  \/ VerifyPasswordDone
  \/ "dashboard" \in Shown /\ Logout
  \/ RunReturn
  \/ PersistEffect
  \/ Reload
  \/ SwitchToLogin
  \/ SwitchToRegister

SpecSession == Init /\ [][NextSession]_vars

\* useAppStore under any sequence of calls
NextAppStore ==
  \/ \E token \in AppTokens, user \in AppUsers : AppLogin(token, user)
  \/ AppLogout
  \/ \E user \in AppUsers : AppUpdateUser(user)
  \/ \E permission \in Permissions : HasPermission(permission)
  \/ UseAuth
  \/ ClearApp

SpecAppStore == Init /\ [][NextAppStore]_vars

\* useUserStore with up to MaxInFlight operations at a time
NextUserStore ==
  \/ \E slot \in Slots, op \in StoreOps, id \in UserIds, softDelete \in BOOLEAN :
       StoreCall(slot, op, id, softDelete)
  \/ \E slot \in Slots, kind \in ResponseKinds : RequestDone(slot, kind)

SpecUserStore == Init /\ [][NextUserStore]_vars

\* useUserStore and the action atoms, driven by the same calls and answers,
\* one operation at a time
NextBoth ==
  \/ \E op \in SharedOps, id \in UserIds, softDelete \in BOOLEAN,
        setNull \in SetNullOutcomes : BothCall(op, id, softDelete, setNull)
  \/ \E slot \in Slots, kind \in ResponseKinds : RequestDone(slot, kind)

SpecBoth == Init /\ [][NextBoth]_vars

\* withRetry with every count of retries up to the bound
NextRetry ==
  \/ \E maxRetries \in 0..MaxRetriesBound : WithRetry(maxRetries)
  \/ \E outcome \in FnOutcomes : FnDone(outcome)
  \/ RetryTimerDone
  \/ RetryReturn

SpecRetry == Init /\ [][NextRetry]_vars

\* the HttpClient, one request at a time
NextHttp ==
  \/ \E endpoint \in Endpoints, params \in ParamSets : HttpGet(endpoint, params)
  \/ \E method \in {"POST", "PUT", "DELETE"}, endpoint \in Endpoints :
       HttpSend(method, endpoint)
  \/ HttpTimeout
  \/ \E status \in {0} \cup OkStatuses \cup ErrorStatuses : HttpFetchDone(status)
  \/ \E body \in Bodies : HttpJsonDone(body)
  \/ HttpReturn

SpecHttp == Init /\ [][NextHttp]_vars

(***************************************************************************)
(* Properties.                                                             *)
(***************************************************************************)
\* caller c's call has settled
Settled(c) == calls[c].pc = "done"

\* caller c's verifyPassword has settled
Verified(c) == Settled(c) /\ calls[c].op = "verifyPassword"

\* caller c's createPasswordHash has returned a record
Created(c) == Settled(c) /\ calls[c].op = "createPasswordHash" /\ ~calls[c].threw

\* C1: verifyPassword resolves to true whenever the stored value is the
\* record that createPasswordHash returned for the submitted password, the
\* empty password included.
RoundTrip ==
  \A c \in Callers :
    (Verified(c) /\ calls[c].origin.kind = "created"
       /\ calls[c].origin.pw = calls[c].password)
      => (~calls[c].threw /\ calls[c].ret = JSBoolean(TRUE))

\* the empty password has been registered and verified against its record
RoundTripWitness ==
  \E c \in Callers :
    /\ Verified(c)
    /\ calls[c].origin.kind = "created"
    /\ calls[c].password = <<>>
    /\ calls[c].origin.pw = <<>>
    /\ calls[c].ret = JSBoolean(TRUE)

\* C2: verifyPassword resolves to false whenever the stored value is the
\* record that createPasswordHash returned for another password than the
\* submitted one.
NegativeCase ==
  \A c \in Callers :
    (Verified(c) /\ calls[c].origin.kind = "created"
       /\ calls[c].origin.pw # calls[c].password)
      => (~calls[c].threw /\ calls[c].ret = JSBoolean(FALSE))

\* a password that differs from the registered one in letter case only has
\* been compared with the record and refused
NegativeCaseWitness ==
  \E c \in Callers :
    /\ Verified(c)
    /\ calls[c].origin.kind = "created"
    /\ calls[c].origin.pw = <<"a">>
    /\ calls[c].password = <<"A">>
    /\ calls[c].compared
    /\ calls[c].ret = JSBoolean(FALSE)

\* caller c has a second record for the password of the stored one: the
\* stored record was returned by an earlier call of createPasswordHash
SecondRecord(c) ==
  /\ Created(c)
  /\ stored.origin.kind = "created"
  /\ stored.origin.pw = calls[c].password

\* C3 as claimed: two calls of createPasswordHash with the same password
\* return two different records.
SaltUniqueness ==
  \A c \in Callers : SecondRecord(c) => calls[c].ret # stored.value

\* C3: two calls of createPasswordHash with the same password return
\* different records, with different salts, exactly when the random source
\* gave them different bytes; each salt is the encoding of the bytes its
\* call drew, and each of the two records verifies against the password.
SaltPerCall ==
  \A c \in Callers :
    SecondRecord(c) =>
      /\ calls[c].salt = bytesToHex(calls[c].fill)
      /\ (calls[c].fill # stored.origin.fill) <=> (calls[c].salt # stored.origin.salt)
      /\ (calls[c].fill # stored.origin.fill) <=> (calls[c].ret # stored.value)
      /\ verifyPassword(calls[c].password, calls[c].ret)
      /\ verifyPassword(calls[c].password, stored.value)

\* two calls for one password drew different bytes and returned different
\* records
SaltPerCallWitness ==
  \E c \in Callers :
    /\ SecondRecord(c)
    /\ calls[c].fill # stored.origin.fill
    /\ calls[c].ret # stored.value

\* the fields of the record that caller c's createPasswordHash returned
RecordFields(c) == split(calls[c].ret.s, "$")

\* C4 as claimed: splitting a returned record on '$' yields exactly four
\* fields: algorithm, iterations, salt, digest.
FourFields ==
  \A c \in Callers :
    Created(c) =>
      /\ Len(RecordFields(c)) = 4
      /\ RecordFields(c)[1] = <<"p", "b", "k", "d", "f", "2">>

\* C4: every returned record has the form $pbkdf2$iterations$salt$digest:
\* splitting it on '$' yields exactly five fields, an empty one followed by
\* the algorithm tag pbkdf2, the iteration count 100000 in decimal, the salt
\* and the digest, in this order.
RecordFormat ==
  \A c \in Callers :
    Created(c) =>
      RecordFields(c) = << <<>>,
                           <<"p", "b", "k", "d", "f", "2">>,
                           <<"1", "0", "0", "0", "0", "0">>,
                           calls[c].salt,
                           calls[c].hash >>

\* a record has been returned and has its five fields
RecordFormatWitness ==
  \E c \in Callers :
    /\ Created(c)
    /\ Len(RecordFields(c)) = 5
    /\ Len(calls[c].salt) > 0
    /\ Len(calls[c].hash) > 0

\* the stored value of caller c's verifyPassword is none that the format
\* test accepts: a missing value, the empty string, a plaintext password or
\* other text, or a record with a field more or less, without its leading
\* delimiter, or with another algorithm tag
Malformed(c) ==
  \/ calls[c].origin.kind = "raw"
  \/ calls[c].origin.kind = "none"
  \/ /\ calls[c].origin.kind = "damaged"
     /\ calls[c].origin.damage \in
          {"noLeadingDelimiter", "algorithm", "extraField", "missingField"}

\* C5: verifyPassword resolves to false, and does not throw, for every
\* password when the stored value is malformed.
FailClosed ==
  \A c \in Callers :
    (Verified(c) /\ Malformed(c)) => (~calls[c].threw /\ calls[c].ret = JSBoolean(FALSE))

\* the password a record was made from has been verified against that
\* record with another algorithm tag, and refused
FailClosedWitness ==
  \E c \in Callers :
    /\ Verified(c)
    /\ calls[c].origin.kind = "damaged"
    /\ calls[c].origin.damage = "algorithm"
    /\ calls[c].origin.pw = calls[c].password
    /\ calls[c].ret = JSBoolean(FALSE)

\* C6: a record built with an iteration count other than the default
\* verifies against the password it was built from and against no other:
\* verifyPassword derives the hash with the count stored in the record.
PerRecordWorkFactor ==
  \A c \in Callers :
    (Verified(c) /\ calls[c].origin.kind = "built") =>
      /\ calls[c].iterations = JSNumber(calls[c].origin.iterations)
      /\ calls[c].hash =
           hashPassword(calls[c].password, calls[c].origin.salt,
                        JSNumber(calls[c].origin.iterations)).value
      /\ calls[c].ret = JSBoolean(calls[c].password = calls[c].origin.pw)

\* a record with another iteration count has verified against its password
PerRecordWorkFactorWitness ==
  \E c \in Callers :
    /\ Verified(c)
    /\ calls[c].origin.kind = "built"
    /\ calls[c].origin.iterations # DefaultIterations
    /\ calls[c].password = calls[c].origin.pw
    /\ calls[c].ret = JSBoolean(TRUE)

\* caller c's call has run hashPassword to its end
Hashed(c) == Settled(c) /\ calls[c].hash # <<>>

\* C7: whatever calls of other callers interleave with it, hashPassword
\* returns what its arguments alone determine, and so does verifyPassword:
\* two settled calls with the same arguments have the same result, which
\* is the result of the call run on its own.
Purity ==
  \A c \in Callers :
    /\ Hashed(c) =>
         calls[c].hash = hashPassword(calls[c].password, calls[c].salt,
                                      calls[c].iterations).value
    /\ Verified(c) =>
         calls[c].ret = JSBoolean(verifyPassword(calls[c].password,
                                                 calls[c].hashedPassword))
    /\ \A d \in Callers :
         /\ (Hashed(c) /\ Hashed(d)
               /\ calls[c].password = calls[d].password
               /\ calls[c].salt = calls[d].salt
               /\ calls[c].iterations = calls[d].iterations)
              => calls[c].hash = calls[d].hash
         /\ (Verified(c) /\ Verified(d)
               /\ calls[c].password = calls[d].password
               /\ calls[c].hashedPassword = calls[d].hashedPassword)
              => calls[c].ret = calls[d].ret

\* a verifyPassword has settled with true while another caller's
\* verifyPassword, of another record, was between its awaits
PurityWitness ==
  \E c, d \in Callers :
    /\ Verified(c)
    /\ calls[c].ret = JSBoolean(TRUE)
    /\ calls[d].op = "verifyPassword"
    /\ calls[d].pc = "deriveBits"
    /\ calls[d].hashedPassword # calls[c].hashedPassword

\* caller c's verifyPassword has settled after comparing the computed hash
\* with the stored digest
Compared(c) == Verified(c) /\ calls[c].compared

\* C8 as claimed: the comparison examines the same number of character
\* positions for every pair of inputs.
SamePositionsForAllInputs ==
  \A c \in Callers : Compared(c) => calls[c].examined = 2 * DigestBytes

\* C8: when the computed hash and the stored digest have the same length,
\* the comparison examines every position, wherever or whether the two
\* differ, and branches on the accumulated result once, at the end; when
\* their lengths differ it returns false without examining any position.
ConstantTime ==
  \A c \in Callers :
    Compared(c) =>
      IF Len(calls[c].hash) = Len(calls[c].storedHash)
        THEN /\ calls[c].examined = Len(calls[c].hash)
             /\ calls[c].resultTests = 1
             /\ calls[c].ret = JSBoolean(calls[c].hash = calls[c].storedHash)
        ELSE /\ calls[c].examined = 0
             /\ calls[c].resultTests = 0
             /\ calls[c].ret = JSBoolean(FALSE)

\* a hash has been compared with a digest of its length that differs from
\* it in the first position
ConstantTimeWitness ==
  \E c \in Callers :
    /\ Compared(c)
    /\ Len(calls[c].hash) = Len(calls[c].storedHash)
    /\ calls[c].hash[1] # calls[c].storedHash[1]
    /\ calls[c].examined = Len(calls[c].hash)

\* C9: the digest field of every returned record has exactly 64 characters,
\* each a lowercase hexadecimal digit, whatever the length of the password.
FixedLengthDigest ==
  \A c \in Callers :
    Created(c) =>
      LET digest == RecordFields(c)[Len(RecordFields(c))]
      IN  /\ Len(digest) = 2 * DigestBytes
          /\ Len(digest) = 64
          /\ \A i \in 1..Len(digest) : digest[i] \in HexChars

\* a record has been returned for a password of the greatest length, with
\* a digest that has a byte below 16
FixedLengthDigestWitness ==
  \E c \in Callers :
    /\ Created(c)
    /\ Len(calls[c].password) = MaxPwLen
    /\ \E i \in 1..DigestBytes : calls[c].hash[2 * i - 1] = "0"

\* caller c's generateSalt has settled
Salted(c) == Settled(c) /\ calls[c].op = "generateSalt"

\* s has n characters, each a lowercase hexadecimal digit
IsHex(s, n) == Len(s) = n /\ \A i \in 1..Len(s) : s[i] \in HexChars

\* C10 as claimed: for every byte length n >= 0, generateSalt(n) returns 2n
\* hexadecimal characters (whenever the random source is available).
SaltEncodingAnyLength ==
  \A c \in Callers :
    (Salted(c) /\ calls[c].rng # "unavailable") =>
      (~calls[c].threw /\ IsHex(calls[c].ret.s, 2 * calls[c].length))

\* C10: for every byte length n from 0 to 65536, generateSalt(n) returns 2n
\* characters, each in 0-9a-f, when the random source fills the array; for
\* a greater n getRandomValues refuses the array and generateSalt throws.
\* The salt field of a created record has 32 characters in 0-9a-f.
SaltEncoding ==
  \A c \in Callers :
    /\ Salted(c) =>
         /\ calls[c].rng = "filled" <=> ~calls[c].threw
         /\ calls[c].length <= RandomQuota => calls[c].rng # "quota"
         /\ calls[c].length > RandomQuota => calls[c].threw
         /\ ~calls[c].threw => IsHex(calls[c].ret.s, 2 * calls[c].length)
    /\ Created(c) =>
         /\ IsHex(RecordFields(c)[4], 2 * DefaultSaltLength)
         /\ Len(RecordFields(c)[4]) = 32

\* generateSalt has returned the salt of three zero bytes
SaltEncodingWitness ==
  \E c \in Callers :
    /\ Salted(c)
    /\ calls[c].length = 3
    /\ calls[c].fill = <<0, 0, 0>>
    /\ calls[c].ret = JSString(<<"0", "0", "0", "0", "0", "0">>)

\* the salt field of the record that caller c's createPasswordHash returned
SaltField(c) == RecordFields(c)[4]

\* C11 as claimed: the salt of every created record has 16 characters.
SaltSixteenCharacters ==
  \A c \in Callers : Created(c) => Len(SaltField(c)) = 16

\* C11: the salt of every record that createPasswordHash returns has the
\* same length, 32 characters: the 16 random bytes, two hexadecimal digits
\* each; so has the salt of the record in the store.
SaltFixedLength ==
  /\ \A c \in Callers :
       Created(c) =>
         /\ Len(SaltField(c)) = 32
         /\ Len(SaltField(c)) = 2 * DefaultSaltLength
         /\ SaltField(c) = calls[c].salt
  /\ stored.origin.kind = "created" => Len(split(stored.value.s, "$")[4]) = 32

\* a record has been returned for another password and another fill than
\* those of the record in the store, with a salt of the same length
SaltFixedLengthWitness ==
  \E c \in Callers :
    /\ Created(c)
    /\ stored.origin.kind = "created"
    /\ stored.origin.pw # calls[c].password
    /\ stored.origin.fill # calls[c].fill
    /\ Len(SaltField(c)) = Len(stored.origin.salt)

\* a handler of the application has run to its end
Finished(op) == run.op = op /\ run.pc = "done"

\* the select of the run returned the row that createUser inserted, as it
\* was inserted
ReturnedUnmodified == run.lookup = "ok" /\ run.user.origin.kind = "created"

\* C12: when the store returns the row that a successful createUser wrote
\* for (email, P) unmodified, verifyUser and the login form succeed with
\* the password P, and fail with every other password.
RegisterThenLogin ==
  /\ (Finished("verifyUser") /\ ReturnedUnmodified) =>
       /\ ~run.threw
       /\ run.user.email = run.email
       /\ run.ret = IF run.password = run.user.origin.pw THEN run.user ELSE NoRow
  /\ (Finished("loginSubmit") /\ ReturnedUnmodified) =>
       /\ run.loginCalled <=> run.password = run.user.origin.pw
       /\ run.threw <=> run.password # run.user.origin.pw
       /\ run.loginCalled => auth = loginUser(run.user)

\* a user has logged in through the form with the registered password, and
\* verifyUser has then refused the same password with its letter case
\* changed
RegisterThenLoginWitness ==
  /\ Finished("verifyUser")
  /\ ReturnedUnmodified
  /\ run.user.origin.pw = StrongPassword
  /\ run.password = CaseChangedPassword
  /\ run.verifyCalled
  /\ run.ret = NoRow
  /\ auth = loginUser(run.user)

\* a submit of the login form has ended without the call of login
LoginFailed == Finished("loginSubmit") /\ ~run.loginCalled

\* C13: every failed submit of the login form leaves the same message in
\* the form, '邮箱或密码错误', whether the email has no row, the lookup
\* failed, the stored record is missing, empty or malformed, or the
\* password is wrong: the message does not tell the cause.
UniformLoginError ==
  LoginFailed =>
    /\ ui.login.error = <<InvalidCredentialsMessage>>
    /\ run.threw
    /\ run.thrown = JSError(InvalidCredentialsMessage)

\* a submit for an email without a row has left the same message as the
\* earlier submits with a wrong password would: here the row of the other
\* email exists and the lookup of this one ended with an error
UniformLoginErrorWitness ==
  /\ LoginFailed
  /\ run.lookup = "error"
  /\ users[run.email] = NoRow
  /\ \E e \in Emails : users[e] # NoRow
  /\ ui.login.error = <<InvalidCredentialsMessage>>

\* createUser has submitted a row for insertion
InsertIssued == run.request # NoRow

\* s begins with the prefix
BeginsWith(s, prefix) == Len(s) >= Len(prefix) /\ SubSeq(s, 1, Len(prefix)) = prefix

\* C14: the password column of every row that createUser submits holds the
\* record that createPasswordHash returned for the submitted password, a
\* '$pbkdf2$' record that verifies against it and is not the plaintext,
\* and no row is submitted before the hash is there; the row in the store
\* is the submitted one.
HashedBeforeInsert ==
  /\ run.pc = "createPasswordHash" => ~InsertIssued
  /\ InsertIssued =>
       /\ run.createUserCalled
       /\ run.rng = "filled"
       /\ run.hashedPassword =
            JSString(createPasswordHash(run.password,
                                        [kind |-> "filled", bytes |-> run.fill]).value)
       /\ run.request.password = run.hashedPassword
       /\ run.request.password # JSString(run.password)
       /\ BeginsWith(run.request.password.s, <<"$", "p", "b", "k", "d", "f", "2", "$">>)
       /\ split(run.request.password.s, "$")[5]
            = hashPassword(run.password, split(run.request.password.s, "$")[4],
                           JSNumber(DefaultIterations)).value
  /\ \A e \in Emails :
       users[e].origin.kind = "created" =>
         /\ users[e].password # JSString(users[e].origin.pw)
         /\ BeginsWith(users[e].password.s, <<"$", "p", "b", "k", "d", "f", "2", "$">>)

\* createUser has returned the row it inserted, whose password column is
\* the record of the submitted password
HashedBeforeInsertWitness ==
  /\ Finished("createUser")
  /\ ~run.threw
  /\ InsertIssued
  /\ run.ret = users[run.email]
  /\ users[run.email].password = run.hashedPassword
  /\ users[run.email].origin.pw = run.password

\* the random source failed while the run generated its salt
EntropyFailed == run.rng = "unavailable"

\* C15: when the random source fails, generateSalt and createPasswordHash
\* throw, whatever the password, and createUser rethrows an Error: it has
\* no record, has submitted no row, and the table is as it was.
EntropyFailureFatal ==
  /\ \A rnd \in AppOutcomes, p \in AppPasswords :
       rnd.kind # "filled" =>
         /\ generateSalt(DefaultSaltLength, rnd) = [threw |-> TRUE, value |-> <<>>]
         /\ createPasswordHash(p, rnd) = [threw |-> TRUE, value |-> <<>>]
  /\ (run.op = "createUser" /\ EntropyFailed) =>
       /\ run.pc = "done"
       /\ run.threw
       /\ run.thrown.isError
       /\ run.hashedPassword = JSUndefined
       /\ ~InsertIssued
       /\ run.ret = NoRow
       /\ users = run.usersBefore

\* createUser has failed on the random source for an email that has no row
EntropyFailureFatalWitness ==
  /\ Finished("createUser")
  /\ EntropyFailed
  /\ run.threw
  /\ users[run.email] = NoRow

\* the password column of the row is a non-empty string
HasStoredPassword(row) == row.password.t = "string" /\ Len(row.password.s) > 0

\* C16: verifyUser returns the row of the email when the select returned
\* it, its password column is non-empty and verifyPassword resolved to true
\* for it, and null in every other case; it never throws and changes
\* nothing in the store.  verifyPassword is called for a non-empty column
\* only, and true means that the column is the record of the password.
VerifyUserContract ==
  Finished("verifyUser") =>
    /\ ~run.threw
    /\ run.ret \in {NoRow, users[run.email]}
    /\ run.ret # NoRow <=>
         /\ run.lookup = "ok"
         /\ users[run.email] # NoRow
         /\ HasStoredPassword(users[run.email])
         /\ run.verifyCalled
         /\ run.verified
    /\ run.verifyCalled <=> (run.lookup = "ok" /\ HasStoredPassword(users[run.email]))
    /\ run.verified =>
         users[run.email].origin = [kind |-> "created", pw |-> run.password]
    /\ users = run.usersBefore

\* verifyUser has returned null for a row whose password column holds the
\* submitted password in plaintext
VerifyUserContractWitness ==
  /\ Finished("verifyUser")
  /\ run.lookup = "ok"
  /\ run.user.password = JSString(run.password)
  /\ run.verifyCalled
  /\ run.ret = NoRow

\* checkEmailExists has settled, called by itself or by checkEmailUniqueness
EmailChecked ==
  run.op \in {"checkEmailExists", "checkEmailUniqueness"} /\ run.pc = "done"

\* C17: checkEmailExists resolves to true exactly when the request was
\* answered with an OK response whose body is a non-empty array; without
\* the configuration, on a network error, on a response that is not OK and
\* on a body that is no array or no JSON it resolves to false.  It never
\* rejects and writes nothing; checkEmailUniqueness reports the email as
\* taken exactly when it resolved to true.
CheckEmailExistsContract ==
  EmailChecked =>
    /\ ~run.threw
    /\ run.exists <=> run.lookup = "rows"
    /\ run.lookup \in {"unconfigured", "networkError", "notOk", "empty", "object", "invalid"}
         => ~run.exists
    /\ run.exists => users[run.email] # NoRow
    /\ run.message =
         IF run.op = "checkEmailUniqueness" /\ run.exists THEN <<EmailTakenMessage>>
         ELSE NoMessage
    /\ users = run.usersBefore

\* the check of a registered email has been answered with a response that
\* is not OK, and checkEmailUniqueness lets the registration continue
CheckEmailExistsContractWitness ==
  /\ EmailChecked
  /\ run.op = "checkEmailUniqueness"
  /\ run.lookup = "notOk"
  /\ users[run.email] # NoRow
  /\ ~run.exists
  /\ run.message = NoMessage

\* caller c's verifyPassword ran on a record whose iterations field is not
\* the decimal representation of a positive integer
BadIterations(c) == Verified(c) /\ calls[c].origin.damage \in IterationDamageKinds

\* C18: verifyPassword resolves to false for every record whose iterations
\* field is empty, zero, negative, no number, or digits followed by other
\* characters, whatever the password.
IterationsFailClosed ==
  \A c \in Callers : BadIterations(c) => calls[c].ret = JSBoolean(FALSE)

\* C19: in a run of the submit handler of LoginForm, login and onSuccess
\* are called, once the handler is at its end, only if getUserByEmail
\* returned the row of the submitted email and verifyPassword resolved to
\* true for the submitted password and the record of that row, which then
\* is the record of that password; the user of AuthProvider is then that
\* row's user, and in every other run it is the one it was at the submit.
\* isLoading is true while the handler runs and false once it has finished.
LoginOnlyWhenVerified ==
  run.op = "loginSubmit" =>
    /\ (run.loginCalled \/ run.onSuccessCalled) =>
         /\ run.pc = "done"
         /\ run.loginCalled /\ run.onSuccessCalled
         /\ run.lookup = "ok"
         /\ run.user = users[run.email]
         /\ run.user.email = run.email
         /\ run.verifyCalled
         /\ run.verified
         /\ run.user.origin = [kind |-> "created", pw |-> run.password]
         /\ ~run.threw
         /\ auth.id = run.user.id
         /\ auth.email = run.email
    /\ ~run.loginCalled => auth = run.authBefore
    /\ ui.login.isLoading <=> run.pc # "done"

\* a submit with a wrong password has ended while another user was logged
\* in: that user still is, and isLoading is false
LoginOnlyWhenVerifiedWitness ==
  /\ LoginFailed
  /\ run.lookup = "ok"
  /\ run.verifyCalled
  /\ ~run.verified
  /\ auth # NoSession
  /\ auth.email # run.email
  /\ auth = run.authBefore
  /\ ~ui.login.isLoading

\* the letters and digits of the password policy
LowercaseLetters ==
  {"a", "b", "c", "d", "e", "f", "g", "h", "i", "j", "k", "l", "m", "n", "o", "p", "q",
   "r", "s", "t", "u", "v", "w", "x", "y", "z"}

UppercaseLetters ==
  {"A", "B", "C", "D", "E", "F", "G", "H", "I", "J", "K", "L", "M", "N", "O", "P", "Q",
   "R", "S", "T", "U", "V", "W", "X", "Y", "Z"}

Digits == {"0", "1", "2", "3", "4", "5", "6", "7", "8", "9"}

\* the password has at least 8 characters, among them a lowercase letter,
\* an uppercase letter, a digit and one of @$!%*?&
MeetsPasswordPolicy(password) ==
  /\ Len(password) >= 8
  /\ \E i \in 1..Len(password) : password[i] \in LowercaseLetters
  /\ \E i \in 1..Len(password) : password[i] \in UppercaseLetters
  /\ \E i \in 1..Len(password) : password[i] \in Digits
  /\ \E i \in 1..Len(password) : password[i] \in {"@", "$", "!", "%", "*", "?", "&"}

\* C20: validatePassword reports isValid exactly for the passwords that
\* meet the policy, and the submit handler of RegisterForm calls createUser
\* with such a password only; for another one it ends at once with the
\* errors of validatePassword as its error, has called nothing and has
\* written nothing.
RegisterOnlyValidPasswords ==
  /\ \A p \in RegisterPasswords : validatePassword(p).isValid <=> MeetsPasswordPolicy(p)
  /\ run.op = "registerSubmit" =>
       /\ run.createUserCalled => MeetsPasswordPolicy(run.password)
       /\ InsertIssued => run.createUserCalled
       /\ ~MeetsPasswordPolicy(run.password) =>
            /\ run.pc = "done"
            /\ ~run.createUserCalled
            /\ ~InsertIssued
            /\ ui.register.error # NoMessage
            /\ ui.register.error = validatePassword(run.password).errors
            /\ ui.register.success = NoMessage
            /\ ~ui.register.isLoading
            /\ users = run.usersBefore

\* a password whose only special character is outside the list has been
\* submitted for an email without a row, and refused
RegisterOnlyValidPasswordsWitness ==
  /\ Finished("registerSubmit")
  /\ run.password = <<"A", "a", "1", "#", "a", "a", "a", "a">>
  /\ ~run.createUserCalled
  /\ ui.register.error = <<"no special character">>
  /\ users[run.email] = NoRow

\* the submit of RegisterForm ended in its catch: '注册失败: ...' is shown
RegisterFailed ==
  /\ Finished("registerSubmit")
  /\ ui.register.error # NoMessage
  /\ ui.register.error[1] = RegisterFailedMessage

\* the submit of RegisterForm ended with the success message
RegisterSucceeded == Finished("registerSubmit") /\ ui.register.success # NoMessage

\* C21: registration is all-or-nothing: a submit of RegisterForm that ends
\* with the failure message has persisted neither a user row nor a
\* preferences row, and one that ends with the success message has
\* persisted the user row and then the preferences row.
RegisterAllOrNothing ==
  /\ RegisterFailed => users = run.usersBefore
  /\ RegisterSucceeded =>
       /\ run.usersBefore[run.email] = NoRow
       /\ users[run.email] # NoRow
       /\ users[run.email].preferences
       /\ run.newUser # NoRow

\* C22: in AuthProvider isAuthenticated is true exactly when user is not
\* null; once the effect has run for the current user, the entry 'user' of
\* localStorage is the JSON text of the user when there is one (and reads
\* back as that user) and is absent when there is none; and while
\* isAuthenticated is true the page is the dashboard and neither form.
AuthProviderConsistent ==
  /\ isAuthenticated(auth) <=> auth # NoSession
  /\ EffectSettled =>
       /\ auth # NoSession =>
            /\ browser.item = JSONstringify(auth)
            /\ savedUser(browser.item) = auth
       /\ auth = NoSession => browser.item = NoItem
  /\ isAuthenticated(auth) => Shown = {"dashboard"}

AuthProviderConsistentWitness ==
  /\ run.authBefore = NoSession
  /\ run.loginCalled
  /\ auth # NoSession
  /\ EffectSettled
  /\ browser.item.present
  /\ browser.currentView = "login"

\* C23: in useAppStore the stored isAuthenticated is true exactly when user
\* and token are both not null, and it is the isAuthenticated that the
\* hook useAuth computes.
AppStoreAuthenticated ==
  /\ app.isAuthenticated <=> (app.user # JSNull /\ app.token # JSNull)
  /\ app.isAuthenticated <=> useAuth(app)

\* C24: in useUserStore loading is true whenever at least one request of
\* the store is in flight, also when two operations overlap, and false
\* when none is.
LoadingWhileInFlight == store.loading <=> InFlight

\* C25: when the operations of useUserStore have completed, error and
\* success are not both set.
OneMessage == ~InFlight => (store.error = NoMessage \/ store.success = NoMessage)

\* C26: after every operation that useUserStore and the action atoms run
\* with the same arguments and the same answer of the API, users and
\* currentUser of the store equal usersAtom and currentUserAtom.
SameUserManagement ==
  ~InFlight => (store.users = atoms.users /\ store.currentUser = atoms.currentUser)

\* the calls of fn so far, the one in progress included
Invoked == Len(retry.results) + (IF retry.pc = "fn" THEN 1 ELSE 0)

\* C27: withRetry calls fn at most maxRetries times; no call follows a call
\* that succeeded or that failed with an ApiError of status 400, 401, 403,
\* 404 or 409; between attempt k and attempt k + 1 it waits
\* min(1000 * 2^(k-1), 5000) ms; it returns the result of the successful
\* call, and when all attempts fail it throws the error of the last one.
RetryContract ==
  /\ Invoked <= retry.maxRetries
  /\ \A k \in 1..(Invoked - 1) :
       /\ ~retry.results[k].ok
       /\ ~(retry.results[k].error.isApiError
              /\ retry.results[k].error.status \in {400, 401, 403, 404, 409})
       /\ k <= Len(retry.delays)
       /\ retry.delays[k] = (IF 1000 * 2 ^ (k - 1) < 5000 THEN 1000 * 2 ^ (k - 1) ELSE 5000)
  /\ (retry.pc = "done" /\ Len(retry.results) > 0) =>
       LET last == retry.results[Len(retry.results)]
       IN  /\ retry.threw = ~last.ok
           /\ retry.threw => retry.thrown = last.error
           /\ ~retry.threw => retry.ret = last.value

RetryContractWitness ==
  /\ retry.pc = "done"
  /\ retry.threw
  /\ retry.maxRetries = MaxRetriesBound
  /\ Len(retry.results) = MaxRetriesBound
  /\ retry.delays = <<1000, 2000, 4000, 5000>>
  /\ retry.thrown = ApiError(500)

\* C28: every failure of request is an ApiError: a response that is not OK
\* gives the status of the response, the abort by the timer gives 408 with
\* the code TIMEOUT, every other Error gives 500; and the timer of the
\* timeout is cleared when request returns or throws.
RequestErrors ==
  http.pc = "done" =>
    /\ http.timer # "armed"
    /\ http.threw =>
         /\ http.thrown.isApiError
         /\ http.thrown.status =
              (CASE http.status \in ErrorStatuses -> http.status
                 [] http.timer = "fired" -> 408
                 [] OTHER -> 500)
         /\ http.timer = "fired" => http.thrown.code = "TIMEOUT"

\* C29: get fetches the base URL followed by the endpoint and by the query
\* of the parameters that are not null: the URL that post, put and delete
\* fetch for the endpoint, plus the query, with the base path once.
GetURL ==
  (http.pc # "idle" /\ http.method = "GET") =>
    /\ http.url = BaseURL \o http.endpoint \o search(searchParams(http.params), TRUE)
    /\ pathname(http.url) = pathname(requestURL(http.endpoint))
    /\ Cardinality({i \in DOMAIN http.url : http.url[i] = ApiPrefix}) = 1

====
